---- MODULE Spec2Model ----
(***************************************************************************)
(* Restaurant waitlist backend: the waitlist engine (WaitlistService over  *)
(* its repositories), the notification dispatcher (NotificationService),   *)
(* the reminder scan and sweep (reminder_task) and the guest token of a    *)
(* WaitlistEntry.  Rows are kept in insertion order: ids are autoincrement *)
(* primary keys and no row is ever deleted, so the id of a row is its      *)
(* index.  Time is counted in minutes.                                     *)
(***************************************************************************)
EXTENDS Integers, Sequences, FiniteSets, TLC

VARIABLES guests, entries, notifications, sms_log, now, token_seq, running, task_pc,
          attempts, adding, interests

vars == <<guests, entries, notifications, sms_log, now, token_seq, running, task_pc,
          attempts, adding, interests>>

(***************************************************************************)
(* Bounds of the model.                                                    *)
(***************************************************************************)
MaxEntries == 2
MaxNotifications == 2
MaxTicks == 1
MaxTokens == 2
MaxReorderLen == 2
MaxEvents == 3
MaxRows == 4
MaxPosition == 5
MaxTaskRows == 3
MaxGuestEvents == 6

(***************************************************************************)
(* Program constants.                                                      *)
(***************************************************************************)
DEFAULT_AVG_TURN_TIME_MINUTES == 15
DEFAULT_TOKEN_EXPIRY_HOURS == 24
reminder_minutes_before == 10
MinutesPerHour == 60

\* A nullable datetime column that holds NULL, and a nullable token that does.
NoTime == -1
NoToken == 0
\* scalar_one_or_none(): no row, or more than one row (MultipleResultsFound).
NoRow == 0
ManyRows == -1

WaitlistStatus == {"waiting", "seated", "canceled", "no_show"}
NotificationType == {"table_ready", "reminder", "custom"}
NotificationStatus == {"pending", "sent", "failed"}

\* Inputs the requests are drawn from.
Names == {"Ann", "Bob"}
Phones == {"", "555"}
PartySizes == {0, 1}
Sources == {"kiosk"}
EntryIds == 1..(MaxEntries + 1)

\* The two callers of the dispatcher that can overlap, and a call not yet made.
Workers == {"manual", "sweep"}
IdleAttempt ==
    [pc |-> "idle", entry_id |-> NoRow, row |-> NoRow, success |-> FALSE, err |-> ""]

\* The two add_guest requests that can overlap, and a request not yet made.
Requests == {"first", "second"}
IdleRequest ==
    [pc |-> "idle", name |-> "", party_size |-> 0, phone_number |-> "", source |-> "",
     guest_id |-> NoRow, max_position |-> 0, entry_id |-> NoRow, err |-> ""]

SetMax(S) == CHOOSE x \in S : \A y \in S : y <= x

RECURSIVE SeqsUpTo(_, _)
SeqsUpTo(S, n) ==
    IF n = 0 THEN {<<>>}
    ELSE LET shorter == SeqsUpTo(S, n - 1)
         IN  shorter \cup {Append(s, x) : s \in {t \in shorter : Len(t) = n - 1}, x \in S}

(***************************************************************************)
(* Waitlist engine.                                                        *)
(***************************************************************************)
\* Faulty variants of the transition table: one lets a status be set to
\* itself, one lets a terminal entry be put back on the list.
TransitionsAllowingSame(current) ==
    IF current = "waiting" THEN {"seated", "canceled", "no_show", "waiting"} ELSE {current}

TransitionsWithUndo(current) ==
    IF current = "waiting" THEN {"seated", "canceled", "no_show"} ELSE {"waiting"}

VALID_TRANSITIONS(current) ==
    IF current = "waiting" THEN {"seated", "canceled", "no_show"} ELSE {}

get_by_id(es, entry_id) == IF entry_id \in 1..Len(es) THEN entry_id ELSE NoRow

\* Faulty variant of the guest lookup: no guest is ever found.
phone_never_found(gs, phone_number) == NoRow

get_by_phone(gs, phone_number) ==
    LET found == {g \in 1..Len(gs) : gs[g].phone_number = phone_number}
    IN  IF found = {} THEN NoRow
        ELSE IF Cardinality(found) = 1 THEN CHOOSE g \in found : TRUE
        ELSE ManyRows

WaitingIds(es) == {i \in 1..Len(es) : es[i].status = "waiting"}

\* Faulty variants of the tail position: the maximum over every entry
\* whatever its status, and the number of waiting entries.
max_position_any_status(es) ==
    IF es = <<>> THEN 0 ELSE SetMax({es[i].position : i \in 1..Len(es)})

waiting_count(es) == Cardinality(WaitingIds(es))

get_max_position(es) ==
    IF WaitingIds(es) = {} THEN 0
    ELSE SetMax({es[i].position : i \in WaitingIds(es)})

NewEntry(guest_id, party_size, source, position, created_at) ==
    [guest_id |-> guest_id, party_size |-> party_size, status |-> "waiting",
     position |-> position, vip_flag |-> FALSE, source |-> source,
     created_at |-> created_at, version |-> 1,
     guest_token |-> NoToken, token_expires_at |-> NoTime]

\* Faulty variant of add_guest: the guest is looked up and created before
\* the party size is validated.
add_guest_validating_late(gs, es, name, party_size, phone_number, source, t) ==
    LET hit == get_by_phone(gs, phone_number)
    IN  IF hit = ManyRows
        THEN [err |-> "MultipleResultsFound", party_size |-> party_size, guests |-> gs,
              entries |-> es, entry_id |-> NoRow]
        ELSE LET gs2 == IF hit = NoRow
                        THEN Append(gs, [name |-> name, phone_number |-> phone_number])
                        ELSE gs
                 guest_id == IF hit = NoRow THEN Len(gs2) ELSE hit
                 next_position == get_max_position(es) + 1
             IN  IF party_size < 1
                 THEN [err |-> "InvalidPartySize", party_size |-> party_size,
                       guests |-> gs2, entries |-> es, entry_id |-> NoRow]
                 ELSE [err |-> "ok", party_size |-> party_size, guests |-> gs2,
                       entries |-> Append(es, NewEntry(guest_id, party_size, source,
                                                       next_position, t)),
                       entry_id |-> Len(es) + 1]

\* Faulty variant of add_guest: a guest found by phone takes the name given
\* with the new request.
add_guest_renaming(gs, es, name, party_size, phone_number, source, t) ==
    LET r == add_guest_validating_late(gs, es, name, party_size, phone_number, source, t)
        hit == get_by_phone(gs, phone_number)
    IN  IF party_size < 1
        THEN [err |-> "InvalidPartySize", party_size |-> party_size, guests |-> gs,
              entries |-> es, entry_id |-> NoRow]
        ELSE IF r.err = "ok" /\ hit # NoRow
        THEN [r EXCEPT !.guests = [gs EXCEPT ![hit].name = name]]
        ELSE r

add_guest(gs, es, name, party_size, phone_number, source, t) ==
    IF party_size < 1
    THEN [err |-> "InvalidPartySize", party_size |-> party_size, guests |-> gs,
          entries |-> es, entry_id |-> NoRow]
    ELSE LET hit == get_by_phone(gs, phone_number)
         IN  IF hit = ManyRows
             THEN [err |-> "MultipleResultsFound", party_size |-> party_size,
                   guests |-> gs, entries |-> es, entry_id |-> NoRow]
             ELSE LET gs2 == IF hit = NoRow
                             THEN Append(gs, [name |-> name, phone_number |-> phone_number])
                             ELSE gs
                      guest_id == IF hit = NoRow THEN Len(gs2) ELSE hit
                      next_position == get_max_position(es) + 1
                  IN  [err |-> "ok", party_size |-> party_size, guests |-> gs2,
                       entries |-> Append(es, NewEntry(guest_id, party_size, source,
                                                       next_position, t)),
                       entry_id |-> Len(es) + 1]

\* Faulty variant of the status update: the entries behind the one that
\* leaves the list move up.
update_status_renumbering(es, entry_id, new_status) ==
    IF get_by_id(es, entry_id) = NoRow
    THEN [err |-> "EntryNotFoundError", current |-> "", target |-> new_status, entries |-> es]
    ELSE LET current_status == es[entry_id].status
         IN  IF new_status \notin VALID_TRANSITIONS(current_status)
             THEN [err |-> "InvalidStatusTransitionError", current |-> current_status,
                   target |-> new_status, entries |-> es]
             ELSE [err |-> "ok", current |-> current_status, target |-> new_status,
                   entries |-> [i \in 1..Len(es) |->
                       IF i = entry_id THEN [es[i] EXCEPT !.status = new_status]
                       ELSE IF es[i].position > es[entry_id].position
                       THEN [es[i] EXCEPT !.position = @ - 1]
                       ELSE es[i]]]

update_status(es, entry_id, new_status) ==
    IF get_by_id(es, entry_id) = NoRow
    THEN [err |-> "EntryNotFoundError", current |-> "", target |-> new_status, entries |-> es]
    ELSE LET current_status == es[entry_id].status
         IN  IF new_status \notin VALID_TRANSITIONS(current_status)
             THEN [err |-> "InvalidStatusTransitionError", current |-> current_status,
                   target |-> new_status, entries |-> es]
             ELSE [err |-> "ok", current |-> current_status, target |-> new_status,
                   entries |-> [es EXCEPT ![entry_id].status = new_status]]

\* Faulty variant of the reorder loop: positions numbered from 0.
RECURSIVE reorder_zero_based(_, _, _)
reorder_zero_based(es, entry_ids, idx) ==
    IF idx > Len(entry_ids)
    THEN [err |-> "ok", entry_id |-> NoRow, entries |-> es]
    ELSE IF get_by_id(es, entry_ids[idx]) = NoRow
         THEN [err |-> "EntryNotFoundError", entry_id |-> entry_ids[idx], entries |-> es]
         ELSE reorder_zero_based([es EXCEPT ![entry_ids[idx]].position = idx - 1],
                                 entry_ids, idx + 1)

RECURSIVE reorder_from(_, _, _)
reorder_from(es, entry_ids, idx) ==
    IF idx > Len(entry_ids)
    THEN [err |-> "ok", entry_id |-> NoRow, entries |-> es]
    ELSE IF get_by_id(es, entry_ids[idx]) = NoRow
         THEN [err |-> "EntryNotFoundError", entry_id |-> entry_ids[idx], entries |-> es]
         ELSE reorder_from([es EXCEPT ![entry_ids[idx]].position = idx], entry_ids, idx + 1)

\* Faulty variant of the reorder: the ids are validated and nothing is
\* assigned.
reorder_without_assignment(es, entry_ids) ==
    [reorder_from(es, entry_ids, 1) EXCEPT !.entries = es]

\* Faulty variant of the reorder: the listed entries are numbered from the
\* lowest position they held instead of from 1.
reorder_from_lowest(es, entry_ids) ==
    LET r == reorder_from(es, entry_ids, 1)
        listed == {entry_ids[k] : k \in 1..Len(entry_ids)}
    IN  IF r.err # "ok" \/ entry_ids = <<>> THEN r
        ELSE LET lowest == CHOOSE p \in {es[i].position : i \in listed} :
                               \A i \in listed : p <= es[i].position
             IN  [r EXCEPT !.entries = [i \in 1..Len(es) |->
                     IF i \in listed
                     THEN [r.entries[i] EXCEPT !.position = @ + lowest - 1]
                     ELSE r.entries[i]]]

reorder_entries(es, entry_ids) == reorder_from(es, entry_ids, 1)

\* Faulty variant of the VIP flag: a VIP is moved to the head of the list.
mark_vip_promoting(es, entry_id, vip) ==
    IF get_by_id(es, entry_id) = NoRow
    THEN [err |-> "EntryNotFoundError", entries |-> es]
    ELSE [err |-> "ok",
          entries |-> [es EXCEPT ![entry_id].vip_flag = vip,
                                 ![entry_id].position = IF vip THEN 1 ELSE @]]

mark_vip(es, entry_id, vip) ==
    IF get_by_id(es, entry_id) = NoRow
    THEN [err |-> "EntryNotFoundError", entries |-> es]
    ELSE [err |-> "ok", entries |-> [es EXCEPT ![entry_id].vip_flag = vip]]

\* Faulty variant of the estimate: the entry's own turn is counted.
eta_counting_own_turn(es, entry_id, avg) ==
    IF get_by_id(es, entry_id) = NoRow
    THEN [err |-> "EntryNotFoundError", entry_id |-> entry_id]
    ELSE [err |-> "ok", entry_id |-> entry_id, minutes |-> es[entry_id].position * avg]

calculate_eta(es, entry_id, avg) ==
    IF get_by_id(es, entry_id) = NoRow
    THEN [err |-> "EntryNotFoundError", entry_id |-> entry_id]
    ELSE LET parties_ahead == SetMax({0, es[entry_id].position - 1})
         IN  [err |-> "ok", entry_id |-> entry_id, minutes |-> parties_ahead * avg]

\* The body of the reorder response: the returned entries in order, each with
\* the estimate computed after the reorder.
reorder_response(es, entry_ids, avg) ==
    LET r == reorder_entries(es, entry_ids)
    IN  IF r.err # "ok"
        THEN [err |-> r.err, entry_id |-> r.entry_id, body |-> <<>>]
        ELSE [err |-> "ok", entry_id |-> NoRow,
              body |-> [k \in 1..Len(entry_ids) |->
                           [id |-> entry_ids[k],
                            position |-> r.entries[entry_ids[k]].position,
                            eta_minutes |-> calculate_eta(r.entries, entry_ids[k],
                                                          avg).minutes]]]

\* Faulty variant of the waiting view: the ORDER BY is missing and the rows
\* come in id order.
waiting_in_arrival_order(es) ==
    LET W == WaitingIds(es)
    IN  {s \in [1..Cardinality(W) -> W] : \A i, j \in DOMAIN s : i < j => s[i] < s[j]}

get_all_waiting(es) ==
    LET W == WaitingIds(es)
    IN  {s \in [1..Cardinality(W) -> W] :
            /\ \A i, j \in DOMAIN s : i # j => s[i] # s[j]
            /\ \A i, j \in DOMAIN s : i < j => es[s[i]].position <= es[s[j]].position}

(***************************************************************************)
(* Guest token of an entry.                                                *)
(***************************************************************************)
\* Faulty variant of the token generation: an entry that has a token keeps
\* it and only the expiry is renewed.
generate_keeping_first(es, entry_id, fresh, expiry_hours, t) ==
    [es EXCEPT ![entry_id].guest_token = IF @ = NoToken THEN fresh ELSE @,
               ![entry_id].token_expires_at = t + expiry_hours * MinutesPerHour]

generate_guest_token(es, entry_id, fresh, expiry_hours, t) ==
    [es EXCEPT ![entry_id].guest_token = fresh,
               ![entry_id].token_expires_at = t + expiry_hours * MinutesPerHour]

\* Faulty variant of the validity test: the expiry instant still counts.
token_valid_through_expiry(e, t) ==
    IF e.guest_token = NoToken \/ e.token_expires_at = NoTime THEN FALSE
    ELSE t <= e.token_expires_at

is_token_valid(e, t) ==
    IF e.guest_token = NoToken \/ e.token_expires_at = NoTime THEN FALSE
    ELSE t < e.token_expires_at

get_entry_by_token(es, token) ==
    LET found == {i \in 1..Len(es) : es[i].guest_token = token}
    IN  IF found = {} THEN NoRow
        ELSE IF Cardinality(found) = 1 THEN CHOOSE i \in found : TRUE
        ELSE ManyRows

(***************************************************************************)
(* Tokenized guest endpoints.  The menu is fixed: item 1 can be ordered,   *)
(* item 2 is active and unavailable, item 3 is inactive, and no other item *)
(* exists.  A response is its status code, its detail and what it shows;   *)
(* a request that writes also gives the interest rows it leaves.           *)
(***************************************************************************)
\* eta_minutes = None in a guest context.
NoEta == -1
\* The minutes per position of the guest context.
GUEST_CONTEXT_MINUTES == 15

menu_items ==
    <<[is_active |-> TRUE, is_available |-> TRUE],
      [is_active |-> TRUE, is_available |-> FALSE],
      [is_active |-> FALSE, is_available |-> TRUE]>>

\* Inputs of the guest requests: the token of the link, which is a string
\* and so never NULL, the menu item and the quantity.
GuestTokens == 1..(MaxTokens + 1)
MenuItemIds == 1..(Len(menu_items) + 1)
Quantities == {1, 2}

get_item_by_id(item_id) == IF item_id \in 1..Len(menu_items) THEN item_id ELSE NoRow

\* Faulty variant of the token test: the expiry is not tested.
entry_for_any_token(es, token, t) == get_entry_by_token(es, token)

\* The test every endpoint but the context makes first: the entry of the
\* token when the token is valid, and no entry otherwise.  (The token column
\* is unique; ManyRows stands for the exception of the lookup.)
entry_for_valid_token(es, token, t) ==
    LET entry == get_entry_by_token(es, token)
    IN  IF entry = ManyRows THEN ManyRows
        ELSE IF entry = NoRow \/ ~is_token_valid(es[entry], t) THEN NoRow
        ELSE entry

GuestResponse(code, detail, entry_id, ints) ==
    [status_code |-> code, detail |-> detail, entry_id |-> entry_id, interests |-> ints]

get_guest_context(es, gs, token, t) ==
    LET entry == get_entry_by_token(es, token)
        none == [entry_id |-> NoRow, guest_name |-> "", party_size |-> 0, status |-> "",
                 position |-> 0, eta_minutes |-> NoEta]
    IN  IF entry = ManyRows
        THEN [status_code |-> 500, detail |-> "MultipleResultsFound", body |-> none]
        ELSE IF entry = NoRow
        THEN [status_code |-> 404, detail |-> "Invalid or expired link", body |-> none]
        ELSE IF ~is_token_valid(es[entry], t)
        THEN [status_code |-> 410, detail |-> "This link has expired", body |-> none]
        ELSE [status_code |-> 200, detail |-> "",
              body |-> [entry_id |-> entry,
                        guest_name |-> gs[es[entry].guest_id].name,
                        party_size |-> es[entry].party_size,
                        status |-> es[entry].status,
                        position |-> es[entry].position,
                        eta_minutes |->
                            IF es[entry].status = "waiting" /\ es[entry].position > 0
                            THEN es[entry].position * GUEST_CONTEXT_MINUTES
                            ELSE NoEta]]

get_guest_menu(es, ints, token, t) ==
    LET entry == entry_for_valid_token(es, token, t)
    IN  IF entry = ManyRows THEN GuestResponse(500, "MultipleResultsFound", NoRow, ints)
        ELSE IF entry = NoRow THEN GuestResponse(404, "Invalid or expired link", NoRow, ints)
        ELSE GuestResponse(200, "", entry, ints)

get_guest_interests(es, ints, token, t) ==
    LET entry == entry_for_valid_token(es, token, t)
    IN  IF entry = ManyRows THEN GuestResponse(500, "MultipleResultsFound", NoRow, ints)
        ELSE IF entry = NoRow THEN GuestResponse(404, "Invalid or expired link", NoRow, ints)
        ELSE GuestResponse(200, "", entry, ints)

\* (entry, menu item) is unique in guest_interests.
get_interest(ints, entry_id, menu_item_id) ==
    LET found == {k \in 1..Len(ints) : /\ ints[k].waitlist_entry_id = entry_id
                                       /\ ints[k].menu_item_id = menu_item_id}
    IN  IF found = {} THEN NoRow ELSE CHOOSE k \in found : TRUE

GuestInterestRepository_star_item(ints, entry_id, menu_item_id, starred) ==
    LET k == get_interest(ints, entry_id, menu_item_id)
    IN  IF k # NoRow THEN [ints EXCEPT ![k].is_starred = starred]
        ELSE Append(ints, [waitlist_entry_id |-> entry_id, menu_item_id |-> menu_item_id,
                           is_starred |-> starred, is_preorder |-> FALSE, quantity |-> 1])

GuestInterestRepository_add_preorder(ints, entry_id, menu_item_id, quantity) ==
    LET k == get_interest(ints, entry_id, menu_item_id)
    IN  IF k # NoRow THEN [ints EXCEPT ![k].is_preorder = TRUE, ![k].quantity = quantity]
        ELSE Append(ints, [waitlist_entry_id |-> entry_id, menu_item_id |-> menu_item_id,
                           is_starred |-> TRUE, is_preorder |-> TRUE,
                           quantity |-> quantity])

GuestInterestRepository_remove_preorder(ints, entry_id, menu_item_id) ==
    LET k == get_interest(ints, entry_id, menu_item_id)
    IN  IF k # NoRow THEN [ints EXCEPT ![k].is_preorder = FALSE, ![k].quantity = 1]
        ELSE ints

star_item(es, ints, token, menu_item_id, starred, t) ==
    LET entry == entry_for_valid_token(es, token, t)
        item == get_item_by_id(menu_item_id)
    IN  IF entry = ManyRows THEN GuestResponse(500, "MultipleResultsFound", NoRow, ints)
        ELSE IF entry = NoRow THEN GuestResponse(404, "Invalid or expired link", NoRow, ints)
        ELSE IF item = NoRow \/ ~menu_items[item].is_active
        THEN GuestResponse(404, "Menu item not found", entry, ints)
        ELSE GuestResponse(200, "", entry,
                 GuestInterestRepository_star_item(ints, entry, menu_item_id, starred))

add_preorder(es, ints, token, menu_item_id, quantity, t) ==
    LET entry == entry_for_valid_token(es, token, t)
        item == get_item_by_id(menu_item_id)
    IN  IF entry = ManyRows THEN GuestResponse(500, "MultipleResultsFound", NoRow, ints)
        ELSE IF entry = NoRow THEN GuestResponse(404, "Invalid or expired link", NoRow, ints)
        ELSE IF item = NoRow \/ ~menu_items[item].is_active
        THEN GuestResponse(404, "Menu item not found", entry, ints)
        ELSE IF ~menu_items[item].is_available
        THEN GuestResponse(400, "This item is currently unavailable", entry, ints)
        ELSE GuestResponse(200, "", entry,
                 GuestInterestRepository_add_preorder(ints, entry, menu_item_id, quantity))

remove_preorder(es, ints, token, menu_item_id, t) ==
    LET entry == entry_for_valid_token(es, token, t)
    IN  IF entry = ManyRows THEN GuestResponse(500, "MultipleResultsFound", NoRow, ints)
        ELSE IF entry = NoRow THEN GuestResponse(404, "Invalid or expired link", NoRow, ints)
        ELSE IF get_interest(ints, entry, menu_item_id) = NoRow
        THEN GuestResponse(404, "Item not in pre-order", entry, ints)
        ELSE GuestResponse(200, "", entry,
                 GuestInterestRepository_remove_preorder(ints, entry, menu_item_id))

(***************************************************************************)
(* Actions of the waitlist engine: one request each.                       *)
(***************************************************************************)
Init ==
    /\ guests = <<>>
    /\ entries = <<>>
    /\ notifications = <<>>
    /\ sms_log = <<>>
    /\ now = 0
    /\ token_seq = 0
    /\ running = FALSE
    /\ task_pc = "idle"
    /\ attempts = [w \in Workers |-> IdleAttempt]
    /\ adding = [q \in Requests |-> IdleRequest]
    /\ interests = <<>>

AddGuestFrom(names, phones) ==
    \E name \in names, party_size \in PartySizes, phone \in phones, source \in Sources :
        LET r == add_guest(guests, entries, name, party_size, phone, source, now)
        IN  /\ Len(entries) < MaxEntries
            /\ guests' = r.guests
            /\ entries' = r.entries
            /\ UNCHANGED <<notifications, sms_log, now, token_seq, running, task_pc, attempts,
                           adding, interests>>

AddGuest == AddGuestFrom(Names, Phones)

\* The same request when every party gives the same name and phone.
AddKnownGuest == AddGuestFrom({"Ann"}, {"555"})

\* add_guest taken from one await to the next, for two requests that may
\* overlap: the lookup of the guest, the insert of a new guest, the read of
\* the tail position, the insert of the entry.  A row flushed by one
\* request is taken to be visible to the other at once.
AddGuestLookup ==
    \E q \in Requests, name \in Names, party_size \in PartySizes, phone \in Phones,
       source \in Sources :
        LET hit == get_by_phone(guests, phone)
            begun == [adding[q] EXCEPT !.name = name, !.party_size = party_size,
                                       !.phone_number = phone, !.source = source]
        IN  /\ adding[q].pc = "idle"
            /\ adding' = [adding EXCEPT ![q] =
                   IF party_size < 1
                   THEN [begun EXCEPT !.pc = "done", !.err = "InvalidPartySize"]
                   ELSE IF hit = ManyRows
                   THEN [begun EXCEPT !.pc = "done", !.err = "MultipleResultsFound"]
                   ELSE IF hit = NoRow
                   THEN [begun EXCEPT !.pc = "create"]
                   ELSE [begun EXCEPT !.pc = "read", !.guest_id = hit]]
            /\ UNCHANGED <<guests, entries, notifications, sms_log, now, token_seq, running,
                           task_pc, attempts, interests>>

AddGuestCreate ==
    \E q \in Requests :
        /\ adding[q].pc = "create"
        /\ guests' = Append(guests, [name |-> adding[q].name,
                                     phone_number |-> adding[q].phone_number])
        /\ adding' = [adding EXCEPT ![q] = [@ EXCEPT !.pc = "read",
                                                     !.guest_id = Len(guests) + 1]]
        /\ UNCHANGED <<entries, notifications, sms_log, now, token_seq, running, task_pc,
                       attempts, interests>>

AddGuestReadMax ==
    \E q \in Requests :
        /\ adding[q].pc = "read"
        /\ adding' = [adding EXCEPT ![q] =
               [@ EXCEPT !.pc = "insert", !.max_position = get_max_position(entries)]]
        /\ UNCHANGED <<guests, entries, notifications, sms_log, now, token_seq, running,
                       task_pc, attempts, interests>>

AddGuestInsert ==
    \E q \in Requests :
        LET a == adding[q]
            next_position == a.max_position + 1
        IN  /\ a.pc = "insert"
            /\ entries' = Append(entries, NewEntry(a.guest_id, a.party_size, a.source,
                                                   next_position, now))
            /\ adding' = [adding EXCEPT ![q] = [@ EXCEPT !.pc = "done", !.err = "ok",
                                                         !.entry_id = Len(entries) + 1]]
            /\ UNCHANGED <<guests, notifications, sms_log, now, token_seq, running, task_pc,
                           attempts, interests>>

UpdateStatus ==
    \E entry_id \in EntryIds, new_status \in WaitlistStatus :
        /\ entries' = update_status(entries, entry_id, new_status).entries
        /\ UNCHANGED <<guests, notifications, sms_log, now, token_seq, running, task_pc, attempts,
                       adding, interests>>

\* The id lists a reorder request may carry.
ReorderRequests == SeqsUpTo(EntryIds, MaxReorderLen)

\* A failed reorder leaves the positions assigned so far on the session's
\* objects; the request's session then either keeps or discards them.
ReorderEntries ==
    \E entry_ids \in ReorderRequests :
        LET r == reorder_entries(entries, entry_ids)
        IN  /\ entries' \in (IF r.err = "ok" THEN {r.entries} ELSE {r.entries, entries})
            /\ UNCHANGED <<guests, notifications, sms_log, now, token_seq, running, task_pc,
                           attempts, adding, interests>>

\* A reorder whose caller supplies the complete order of the waiting entries.
OrderingsOf(W) ==
    {s \in [1..Cardinality(W) -> W] : \A i, j \in DOMAIN s : i # j => s[i] # s[j]}

ReorderAllWaiting ==
    \E entry_ids \in OrderingsOf(WaitingIds(entries)) :
        /\ entries' = reorder_entries(entries, entry_ids).entries
        /\ UNCHANGED <<guests, notifications, sms_log, now, token_seq, running, task_pc,
                       attempts, adding, interests>>

MarkVip ==
    \E entry_id \in EntryIds, vip \in BOOLEAN :
        /\ entries' = mark_vip(entries, entry_id, vip).entries
        /\ UNCHANGED <<guests, notifications, sms_log, now, token_seq, running, task_pc, attempts,
                       adding, interests>>

GenerateGuestToken ==
    \E entry_id \in 1..Len(entries) :
        /\ token_seq < MaxTokens
        /\ token_seq' = token_seq + 1
        /\ entries' = generate_guest_token(entries, entry_id, token_seq + 1,
                                           DEFAULT_TOKEN_EXPIRY_HOURS, now)
        /\ UNCHANGED <<guests, notifications, sms_log, now, running, task_pc, attempts, adding,
                       interests>>

\* The guest requests that write.
StarItem ==
    \E token \in GuestTokens, menu_item_id \in MenuItemIds, starred \in BOOLEAN :
        LET r == star_item(entries, interests, token, menu_item_id, starred, now)
        IN  /\ interests' = r.interests
            /\ UNCHANGED <<guests, entries, notifications, sms_log, now, token_seq, running,
                           task_pc, attempts, adding>>

AddPreorder ==
    \E token \in GuestTokens, menu_item_id \in MenuItemIds, quantity \in Quantities :
        LET r == add_preorder(entries, interests, token, menu_item_id, quantity, now)
        IN  /\ interests' = r.interests
            /\ UNCHANGED <<guests, entries, notifications, sms_log, now, token_seq, running,
                           task_pc, attempts, adding>>

RemovePreorder ==
    \E token \in GuestTokens, menu_item_id \in MenuItemIds :
        LET r == remove_preorder(entries, interests, token, menu_item_id, now)
        IN  /\ interests' = r.interests
            /\ UNCHANGED <<guests, entries, notifications, sms_log, now, token_seq, running,
                           task_pc, attempts, adding>>

\* The clock advances between requests: by the time the entry at position 1
\* takes to come due for its reminder, or by the token lifetime.
MinuteStep == DEFAULT_AVG_TURN_TIME_MINUTES - reminder_minutes_before
DayStep == DEFAULT_TOKEN_EXPIRY_HOURS * MinutesPerHour

TicksOf(t) == (t \div DayStep) + ((t % DayStep) \div MinuteStep)

Tick(d) ==
    /\ TicksOf(now) < MaxTicks
    /\ now' = now + d
    /\ UNCHANGED <<guests, entries, notifications, sms_log, token_seq, running, task_pc, attempts,
                   adding, interests>>

TickMinutes == Tick(MinuteStep)

TickDay == Tick(DayStep)

(***************************************************************************)
(* Notification dispatcher.  The empty custom message stands for None and  *)
(* for "": the code tests the message for truth.  A rendered message keeps *)
(* what the template substitutes.                                          *)
(***************************************************************************)
CustomMessages == {"", "Come in"}

\* Faulty variants of the duplicate filter: only pending rows count, and
\* rows of every status count.
SentRows(ns, entry_id, ntype) ==
    {n \in 1..Len(ns) : /\ ns[n].waitlist_entry_id = entry_id
                        /\ ns[n].notification_type = ntype
                        /\ ns[n].status = "sent"}

PendingRows(ns, entry_id, ntype) ==
    {n \in 1..Len(ns) : /\ ns[n].waitlist_entry_id = entry_id
                        /\ ns[n].notification_type = ntype
                        /\ ns[n].status = "pending"}

RowsOfAnyStatus(ns, entry_id, ntype) ==
    {n \in 1..Len(ns) : /\ ns[n].waitlist_entry_id = entry_id
                        /\ ns[n].notification_type = ntype}

\* Faulty variant of the duplicate filter: the type is not compared.
ActiveRowsOfAnyType(ns, entry_id, ntype) ==
    {n \in 1..Len(ns) : /\ ns[n].waitlist_entry_id = entry_id
                        /\ ns[n].status \in {"sent", "pending"}}

ActiveRows(ns, entry_id, ntype) ==
    {n \in 1..Len(ns) : /\ ns[n].waitlist_entry_id = entry_id
                        /\ ns[n].notification_type = ntype
                        /\ ns[n].status \in {"sent", "pending"}}

\* Faulty variant of the duplicate check: it never finds a row.
no_existing_notification(ns, entry_id, ntype) == NoRow

get_existing_notification(ns, entry_id, ntype) ==
    LET found == ActiveRows(ns, entry_id, ntype)
    IN  IF found = {} THEN NoRow
        ELSE IF Cardinality(found) = 1 THEN CHOOSE n \in found : TRUE
        ELSE ManyRows

render_message(ntype, custom_message, guest_name, minutes) ==
    IF custom_message # ""
    THEN [template |-> "custom", text |-> custom_message, guest_name |-> "", minutes |-> 0]
    ELSE [template |-> ntype, text |-> "", guest_name |-> guest_name,
          minutes |-> IF ntype = "reminder" THEN minutes ELSE 0]

PendingNotification(entry_id, phone_number, message, ntype, t) ==
    [waitlist_entry_id |-> entry_id, phone_number |-> phone_number, message |-> message,
     notification_type |-> ntype, status |-> "pending", sent_at |-> NoTime,
     created_at |-> t]

\* What the provider does with a message, and what TwilioAdapter.send makes
\* of it: an exception of the client is logged and becomes False.
TransportOutcomes == {"accepted", "raised"}

TwilioAdapter_send(outcome) == IF outcome = "raised" THEN FALSE ELSE TRUE

\* Faulty variant of the final update: the send time is stamped whatever
\* the transport returned.
FinalAlwaysStamped(n, success, t) ==
    [n EXCEPT !.status = IF success THEN "sent" ELSE "failed", !.sent_at = t]

\* Faulty variant of the final update: a failed transport leaves the row as
\* it was inserted.
FinalLeftPending(n, success, t) ==
    IF success THEN [n EXCEPT !.status = "sent", !.sent_at = t] ELSE n

FinalNotification(n, success, t) ==
    IF success THEN [n EXCEPT !.status = "sent", !.sent_at = t]
    ELSE [n EXCEPT !.status = "failed"]

\* Faulty variant of a raised exception: the transport had been called first.
FailureAfterTransportCall(err, entry_id, ntype, ns, log) ==
    [err |-> err, entry_id |-> entry_id, notification_type |-> ntype,
     notifications |-> ns, sms_log |-> Append(log, [to |-> "", message |-> err]),
     notification_id |-> NoRow]

\* A raised exception: its name and arguments, with the rows as they were.
DispatchFailure(err, entry_id, ntype, ns, log) ==
    [err |-> err, entry_id |-> entry_id, notification_type |-> ntype,
     notifications |-> ns, sms_log |-> log, notification_id |-> NoRow]

\* Faulty variant of the dispatcher: the phone number is resolved before the
\* duplicate check.
dispatch_phone_first(ns, log, es, gs, entry_id, ntype, custom_message, minutes, success, t) ==
    IF get_by_id(es, entry_id) = NoRow
    THEN DispatchFailure("EntryNotFoundError", entry_id, ntype, ns, log)
    ELSE LET existing == get_existing_notification(ns, entry_id, ntype)
             guest == gs[es[entry_id].guest_id]
             message == render_message(ntype, custom_message, guest.name, minutes)
             pending == PendingNotification(entry_id, guest.phone_number, message, ntype, t)
         IN  IF guest.phone_number = ""
             THEN DispatchFailure("ValueError", entry_id, ntype, ns, log)
             ELSE IF existing = ManyRows
             THEN DispatchFailure("MultipleResultsFound", entry_id, ntype, ns, log)
             ELSE IF existing # NoRow
             THEN DispatchFailure("DuplicateNotificationError", entry_id, ntype, ns, log)
             ELSE [err |-> "ok", entry_id |-> entry_id, notification_type |-> ntype,
                   notifications |-> Append(ns, FinalNotification(pending, success, t)),
                   sms_log |-> Append(log, [to |-> guest.phone_number, message |-> message]),
                   notification_id |-> Len(ns) + 1]

dispatch(ns, log, es, gs, entry_id, ntype, custom_message, minutes, success, t) ==
    IF get_by_id(es, entry_id) = NoRow
    THEN DispatchFailure("EntryNotFoundError", entry_id, ntype, ns, log)
    ELSE LET existing == get_existing_notification(ns, entry_id, ntype)
             guest == gs[es[entry_id].guest_id]
             message == render_message(ntype, custom_message, guest.name, minutes)
             pending == PendingNotification(entry_id, guest.phone_number, message, ntype, t)
         IN  IF existing = ManyRows
             THEN DispatchFailure("MultipleResultsFound", entry_id, ntype, ns, log)
             ELSE IF existing # NoRow
             THEN DispatchFailure("DuplicateNotificationError", entry_id, ntype, ns, log)
             ELSE IF guest.phone_number = ""
             THEN DispatchFailure("ValueError", entry_id, ntype, ns, log)
             ELSE [err |-> "ok", entry_id |-> entry_id, notification_type |-> ntype,
                   notifications |-> Append(ns, FinalNotification(pending, success, t)),
                   sms_log |-> Append(log, [to |-> guest.phone_number, message |-> message]),
                   notification_id |-> Len(ns) + 1]

send_table_ready(ns, log, es, gs, entry_id, custom_message, success, t) ==
    dispatch(ns, log, es, gs, entry_id, "table_ready", custom_message, 0, success, t)

send_reminder(ns, log, es, gs, entry_id, minutes_until_ready, custom_message, success, t) ==
    dispatch(ns, log, es, gs, entry_id, "reminder", custom_message, minutes_until_ready,
             success, t)

(***************************************************************************)
(* Reminder scan and sweep.                                                *)
(***************************************************************************)
DEFAULT_MINUTES_UNTIL_READY == 10

reminder_threshold(e, rmb, avg) == e.created_at + e.position * avg - rmb

\* Faulty variant of the threshold test: due only after the threshold.
StrictlyPastThreshold(es, rmb, avg, t) ==
    {i \in WaitingIds(es) : t > reminder_threshold(es[i], rmb, avg)}

PastThreshold(es, rmb, avg, t) ==
    {i \in WaitingIds(es) : t >= reminder_threshold(es[i], rmb, avg)}

IsDue(es, ns, i, rmb, avg, t) ==
    /\ i \in PastThreshold(es, rmb, avg, t)
    /\ get_existing_notification(ns, i, "reminder") = NoRow

RECURSIVE AscendingSeq(_)
AscendingSeq(S) ==
    IF S = {} THEN <<>>
    ELSE LET m == SetMax(S) IN Append(AscendingSeq(S \ {m}), m)

\* Faulty variant of the scan: reminders already recorded are not looked up.
due_ignoring_reminders(es, ns, rmb, avg, t) ==
    [err |-> "ok", due |-> AscendingSeq(PastThreshold(es, rmb, avg, t))]

get_entries_due_for_reminder(es, ns, rmb, avg, t) ==
    IF \E i \in PastThreshold(es, rmb, avg, t) :
            get_existing_notification(ns, i, "reminder") = ManyRows
    THEN [err |-> "MultipleResultsFound", due |-> <<>>]
    ELSE [err |-> "ok",
          due |-> AscendingSeq({i \in 1..Len(es) : IsDue(es, ns, i, rmb, avg, t)})]

\* The lists of entries a sweep may hold when it starts dispatching: what a
\* scan returned, which other requests may have overtaken since.
ScannedLists ==
    {s \in SeqsUpTo(EntryIds, MaxEntries) : \A i, j \in DOMAIN s : i # j => s[i] # s[j]}

\* Faulty variant of the sweep loop: the first exception ends the sweep.
RECURSIVE sweep_until_failure(_, _, _, _, _, _, _, _, _)
sweep_until_failure(due, k, ns, log, sent_entry_ids, es, gs, oks, t) ==
    IF k > Len(due)
    THEN [err |-> "ok", notifications |-> ns, sms_log |-> log,
          sent_entry_ids |-> sent_entry_ids]
    ELSE LET r == send_reminder(ns, log, es, gs, due[k], DEFAULT_MINUTES_UNTIL_READY, "",
                                oks[due[k]], t)
         IN  IF r.err = "ok"
             THEN sweep_until_failure(due, k + 1, r.notifications, r.sms_log,
                                      Append(sent_entry_ids, due[k]), es, gs, oks, t)
             ELSE [err |-> r.err, notifications |-> ns, sms_log |-> log,
                   sent_entry_ids |-> sent_entry_ids]

RECURSIVE sweep_from(_, _, _, _, _, _, _, _, _)
sweep_from(due, k, ns, log, sent_entry_ids, es, gs, oks, t) ==
    IF k > Len(due)
    THEN [err |-> "ok", notifications |-> ns, sms_log |-> log,
          sent_entry_ids |-> sent_entry_ids]
    ELSE LET r == send_reminder(ns, log, es, gs, due[k], DEFAULT_MINUTES_UNTIL_READY, "",
                                oks[due[k]], t)
         IN  IF r.err = "ok"
             THEN sweep_from(due, k + 1, r.notifications, r.sms_log,
                             Append(sent_entry_ids, due[k]), es, gs, oks, t)
             ELSE sweep_from(due, k + 1, ns, log, sent_entry_ids, es, gs, oks, t)

check_and_send_reminders(ns, log, es, gs, oks, t) ==
    LET scan == get_entries_due_for_reminder(es, ns, reminder_minutes_before,
                                             DEFAULT_AVG_TURN_TIME_MINUTES, t)
    IN  IF scan.err # "ok"
        THEN [err |-> scan.err, notifications |-> ns, sms_log |-> log,
              sent_entry_ids |-> <<>>]
        ELSE sweep_from(scan.due, 1, ns, log, <<>>, es, gs, oks, t)

(***************************************************************************)
(* Actions of the dispatcher and of the reminder task.                     *)
(***************************************************************************)
SendTableReady ==
    \E entry_id \in EntryIds, custom_message \in CustomMessages, success \in BOOLEAN :
        LET r == send_table_ready(notifications, sms_log, entries, guests, entry_id,
                                  custom_message, success, now)
        IN  /\ Len(notifications) < MaxNotifications
            /\ notifications' = r.notifications
            /\ sms_log' = r.sms_log
            /\ UNCHANGED <<guests, entries, now, token_seq, running, task_pc, attempts, adding,
                           interests>>

SendReminder ==
    \E entry_id \in EntryIds, success \in BOOLEAN :
        LET r == send_reminder(notifications, sms_log, entries, guests, entry_id,
                               reminder_minutes_before, "", success, now)
        IN  /\ Len(notifications) < MaxNotifications
            /\ notifications' = r.notifications
            /\ sms_log' = r.sms_log
            /\ UNCHANGED <<guests, entries, now, token_seq, running, task_pc, attempts, adding,
                           interests>>

\* The dispatcher stops between the insert of the pending row and the final
\* update, before or after the transport call; the row it inserted is kept.
DispatcherStops ==
    \E w \in Workers :
        /\ attempts[w].pc \in {"send", "final"}
        /\ attempts' = [attempts EXCEPT ![w] = [@ EXCEPT !.pc = "stopped"]]
        /\ UNCHANGED <<guests, entries, notifications, sms_log, now, token_seq, running,
                       task_pc, adding, interests>>

\* run() up to its first sweep: the flag is set and the loop condition holds.
TaskStart ==
    /\ task_pc \in {"idle", "done"}
    /\ running' = TRUE
    /\ task_pc' = "sweep"
    /\ UNCHANGED <<guests, entries, notifications, sms_log, now, token_seq, attempts, adding,
                   interests>>

\* start_background(): the task is created and has not run yet.
TaskStartBackground ==
    /\ task_pc \in {"idle", "done"}
    /\ task_pc' = "created"
    /\ UNCHANGED <<guests, entries, notifications, sms_log, now, token_seq, running, attempts,
                   adding, interests>>

\* The event loop runs the created task up to its first sweep.
TaskRunFirstStep ==
    /\ task_pc = "created"
    /\ running' = TRUE
    /\ task_pc' = "sweep"
    /\ UNCHANGED <<guests, entries, notifications, sms_log, now, token_seq, attempts, adding,
                   interests>>

\* One iteration's body: the sweep, whose exceptions the loop catches.
TaskSweepWithin(limit) ==
    \E oks \in [1..MaxEntries -> BOOLEAN] :
        LET r == check_and_send_reminders(notifications, sms_log, entries, guests, oks, now)
        IN  /\ task_pc = "sweep"
            /\ Len(r.notifications) <= limit
            /\ notifications' = r.notifications
            /\ sms_log' = r.sms_log
            /\ task_pc' = "sleep"
            /\ UNCHANGED <<guests, entries, now, token_seq, running, attempts, adding, interests>>

TaskSweep == TaskSweepWithin(MaxNotifications)

\* Where an iteration may fail outside the dispatches, whose exceptions the
\* sweep catches itself: opening the session, the scan, the commit.
IterationFaults == {"none", "session", "scan", "commit"}

\* Faulty variant of the try statement of the loop: no except clause, an
\* exception leaves run().
run_without_try(raised) == IF raised THEN "done" ELSE "sleep"

\* The try statement of the loop: an exception of the body goes to the
\* except clause, a body that returns goes on to the sleep.
run_after_body(raised) == IF raised THEN "caught" ELSE "sleep"

\* One iteration's body with its failures.  A session that cannot be opened
\* and a scan that raises leave rows and transport untouched; the commit is
\* only made when the sweep returned entries, and when it raises the
\* transport calls are made and the rows of the sweep are kept or lost.
TaskRunIteration(limit) ==
    \E oks \in [1..MaxEntries -> BOOLEAN], fault \in IterationFaults, kept \in BOOLEAN :
        LET r == check_and_send_reminders(notifications, sms_log, entries, guests, oks, now)
            swept == fault \notin {"session", "scan"} /\ r.err = "ok"
            raised == fault # "none" \/ r.err # "ok"
        IN  /\ task_pc = "sweep"
            /\ fault = "commit" => r.err = "ok" /\ r.sent_entry_ids # <<>>
            /\ fault = "commit" \/ kept
            /\ notifications' = IF swept /\ kept THEN r.notifications ELSE notifications
            /\ sms_log' = IF swept THEN r.sms_log ELSE sms_log
            /\ Len(notifications') <= limit
            /\ Len(sms_log') <= limit
            /\ task_pc' = run_after_body(raised)
            /\ UNCHANGED <<guests, entries, now, token_seq, running, attempts, adding, interests>>

\* The except clause: the error is logged and the loop goes on to the sleep.
TaskCatch ==
    /\ task_pc = "caught"
    /\ task_pc' = "sleep"
    /\ UNCHANGED <<guests, entries, notifications, sms_log, now, token_seq, running, attempts,
                   adding, interests>>

\* The sleep returns and the loop condition is read again.
TaskWake ==
    /\ task_pc = "sleep"
    /\ task_pc' = IF running THEN "sweep" ELSE "done"
    /\ UNCHANGED <<guests, entries, notifications, sms_log, now, token_seq, running, attempts,
                   adding, interests>>

TaskStop ==
    /\ running' = FALSE
    /\ UNCHANGED <<guests, entries, notifications, sms_log, now, token_seq, task_pc, attempts,
                   adding, interests>>

\* POST /reminders/check: one sweep on request.
TriggerReminderCheck ==
    \E oks \in [1..MaxEntries -> BOOLEAN] :
        LET r == check_and_send_reminders(notifications, sms_log, entries, guests, oks, now)
        IN  /\ Len(r.notifications) <= MaxNotifications
            /\ notifications' = r.notifications
            /\ sms_log' = r.sms_log
            /\ UNCHANGED <<guests, entries, now, token_seq, running, task_pc, attempts, adding,
                           interests>>

(***************************************************************************)
(* Two overlapping calls of send_reminder, one from the manual endpoint and *)
(* one from the sweep, each advancing from one await to the next.  A row    *)
(* flushed by one call is taken to be visible to the other at once.         *)
(***************************************************************************)
AttemptMinutes(w) ==
    IF w = "sweep" THEN DEFAULT_MINUTES_UNTIL_READY ELSE reminder_minutes_before

ReminderLoadEntry ==
    \E w \in Workers, entry_id \in EntryIds :
        LET scan == get_entries_due_for_reminder(entries, notifications,
                        reminder_minutes_before, DEFAULT_AVG_TURN_TIME_MINUTES, now)
        IN  /\ attempts[w].pc = "idle"
            /\ w = "sweep" => \E k \in 1..Len(scan.due) : scan.due[k] = entry_id
            /\ attempts' = [attempts EXCEPT ![w] =
                   IF get_by_id(entries, entry_id) = NoRow
                   THEN [@ EXCEPT !.pc = "done", !.entry_id = entry_id,
                                  !.err = "EntryNotFoundError"]
                   ELSE [@ EXCEPT !.pc = "check", !.entry_id = entry_id]]
            /\ UNCHANGED <<guests, entries, notifications, sms_log, now, token_seq, running,
                           task_pc, adding, interests>>

\* The sweep taken in two steps: the scan returns an entry as due, and
\* later the loop over the scanned entries calls send_reminder for it.
SweepScanEntry ==
    \E entry_id \in EntryIds :
        LET scan == get_entries_due_for_reminder(entries, notifications,
                        reminder_minutes_before, DEFAULT_AVG_TURN_TIME_MINUTES, now)
        IN  /\ attempts["sweep"].pc = "idle"
            /\ \E k \in 1..Len(scan.due) : scan.due[k] = entry_id
            /\ attempts' = [attempts EXCEPT !["sweep"] =
                   [@ EXCEPT !.pc = "scanned", !.entry_id = entry_id]]
            /\ UNCHANGED <<guests, entries, notifications, sms_log, now, token_seq, running,
                           task_pc, adding, interests>>

SweepCallSendReminder ==
    LET a == attempts["sweep"]
    IN  /\ a.pc = "scanned"
        /\ attempts' = [attempts EXCEPT !["sweep"] =
               IF get_by_id(entries, a.entry_id) = NoRow
               THEN [@ EXCEPT !.pc = "done", !.err = "EntryNotFoundError"]
               ELSE [@ EXCEPT !.pc = "check"]]
        /\ UNCHANGED <<guests, entries, notifications, sms_log, now, token_seq, running,
                       task_pc, adding, interests>>

ReminderCheckExisting ==
    \E w \in Workers :
        LET a == attempts[w]
            existing == get_existing_notification(notifications, a.entry_id, "reminder")
            guest == guests[entries[a.entry_id].guest_id]
        IN  /\ a.pc = "check"
            /\ attempts' = [attempts EXCEPT ![w] =
                   IF existing = ManyRows
                   THEN [@ EXCEPT !.pc = "done", !.err = "MultipleResultsFound"]
                   ELSE IF existing # NoRow
                   THEN [@ EXCEPT !.pc = "done", !.err = "DuplicateNotificationError"]
                   ELSE IF guest.phone_number = ""
                   THEN [@ EXCEPT !.pc = "done", !.err = "ValueError"]
                   ELSE [@ EXCEPT !.pc = "insert"]]
            /\ UNCHANGED <<guests, entries, notifications, sms_log, now, token_seq, running,
                           task_pc, adding, interests>>

ReminderInsertPending ==
    \E w \in Workers :
        LET a == attempts[w]
            guest == guests[entries[a.entry_id].guest_id]
            message == render_message("reminder", "", guest.name, AttemptMinutes(w))
        IN  /\ a.pc = "insert"
            /\ Len(notifications) < MaxNotifications
            /\ notifications' = Append(notifications,
                   PendingNotification(a.entry_id, guest.phone_number, message,
                                       "reminder", now))
            /\ attempts' = [attempts EXCEPT ![w] =
                   [@ EXCEPT !.pc = "send", !.row = Len(notifications) + 1]]
            /\ UNCHANGED <<guests, entries, sms_log, now, token_seq, running, task_pc, adding,
                           interests>>

ReminderTransport ==
    \E w \in Workers, success \in BOOLEAN :
        LET a == attempts[w]
            n == notifications[a.row]
        IN  /\ a.pc = "send"
            /\ sms_log' = Append(sms_log, [to |-> n.phone_number, message |-> n.message])
            /\ attempts' = [attempts EXCEPT ![w] =
                   [@ EXCEPT !.pc = "final", !.success = success]]
            /\ UNCHANGED <<guests, entries, notifications, now, token_seq, running, task_pc,
                           adding, interests>>

ReminderFinalize ==
    \E w \in Workers :
        LET a == attempts[w]
        IN  /\ a.pc = "final"
            /\ notifications' = [notifications EXCEPT ![a.row] =
                   FinalNotification(@, a.success, now)]
            /\ attempts' = [attempts EXCEPT ![w] = [@ EXCEPT !.pc = "done"]]
            /\ UNCHANGED <<guests, entries, sms_log, now, token_seq, running, task_pc, adding,
                           interests>>

(***************************************************************************)
(* Specifications.                                                         *)
(***************************************************************************)
\* The waitlist engine under arbitrary reorder requests, for one known guest.
NextWaitlist ==
    \/ AddKnownGuest
    \/ UpdateStatus
    \/ ReorderEntries
    \/ MarkVip

SpecWaitlist == Init /\ [][NextWaitlist]_vars

\* The waitlist engine when every reorder lists the waiting entries.
NextOrdered ==
    \/ AddGuest
    \/ UpdateStatus
    \/ ReorderAllWaiting
    \/ MarkVip

SpecOrdered == Init /\ [][NextOrdered]_vars

\* The waitlist engine without reorder requests.
NextNoReorder ==
    \/ AddGuest
    \/ UpdateStatus
    \/ MarkVip

SpecNoReorder == Init /\ [][NextNoReorder]_vars

\* Two overlapping add_guest requests, and status updates.
NextAdds ==
    \/ AddGuestLookup
    \/ AddGuestCreate
    \/ AddGuestReadMax
    \/ AddGuestInsert
    \/ UpdateStatus

SpecAdds == Init /\ [][NextAdds]_vars

\* The dispatcher and the sweep on request, one call at a time, up to MaxRows
\* entry and notification rows.
WithinRows == Len(entries') + Len(notifications') <= MaxRows

NextNotify ==
    \/ AddGuest /\ WithinRows
    \/ SendTableReady /\ WithinRows
    \/ SendReminder /\ WithinRows
    \/ TriggerReminderCheck /\ WithinRows
    \/ TickDay /\ WithinRows

SpecNotify == Init /\ [][NextNotify]_vars

\* Sends alone, one after the other.
NextSend ==
    \/ AddGuest /\ WithinRows
    \/ SendTableReady /\ WithinRows
    \/ SendReminder /\ WithinRows

SpecSend == Init /\ [][NextSend]_vars

\* The reminder scan and the sweep on request, among adds, status updates
\* and manual reminders, minutes or a day apart.
NextScan ==
    \/ AddGuest /\ WithinRows
    \/ UpdateStatus /\ WithinRows
    \/ SendReminder /\ WithinRows
    \/ TriggerReminderCheck /\ WithinRows
    \/ TickMinutes /\ WithinRows
    \/ TickDay /\ WithinRows

SpecScan == Init /\ [][NextScan]_vars

\* Guest tokens: issued, reissued and left to expire.
NextToken ==
    \/ AddKnownGuest
    \/ UpdateStatus
    \/ GenerateGuestToken
    \/ TickDay

SpecToken == Init /\ [][NextToken]_vars

\* The guest of a tokenized link: tokens issued, reissued and left to
\* expire, and items starred and pre-ordered through the link, up to
\* MaxGuestEvents entries, tokens, interest rows and clock steps.
WithinGuestEvents ==
    Len(entries') + token_seq' + Len(interests') + TicksOf(now') <= MaxGuestEvents

NextGuest ==
    \/ AddKnownGuest /\ WithinGuestEvents
    \/ GenerateGuestToken /\ WithinGuestEvents
    \/ TickDay /\ WithinGuestEvents
    \/ StarItem /\ WithinGuestEvents
    \/ AddPreorder /\ WithinGuestEvents
    \/ RemovePreorder /\ WithinGuestEvents

SpecGuest == Init /\ [][NextGuest]_vars

\* The background reminder task.
NextLoop ==
    \/ AddGuest
    \/ UpdateStatus
    \/ SendReminder
    \/ TaskStart
    \/ TaskSweep
    \/ TaskWake
    \/ TaskStop
    \/ TickMinutes

SpecLoop == Init /\ [][NextLoop]_vars

\* The background task beside overlapping reminder requests.  Every step
\* leaves room for the rows of one more sweep, so that the sweep of the
\* loop is never held back by the bound on the rows.
SweepRoom ==
    Len(check_and_send_reminders(notifications', sms_log', entries', guests',
                                 [i \in 1..MaxEntries |-> TRUE], now').notifications)
        <= MaxTaskRows

NextTask ==
    \/ AddKnownGuest /\ SweepRoom
    \/ TickDay /\ SweepRoom
    \/ ReminderLoadEntry /\ SweepRoom
    \/ ReminderCheckExisting /\ SweepRoom
    \/ ReminderInsertPending /\ SweepRoom
    \/ ReminderTransport /\ SweepRoom
    \/ ReminderFinalize /\ SweepRoom
    \/ TaskStartBackground /\ SweepRoom
    \/ TaskRunFirstStep /\ SweepRoom
    \/ TaskSweepWithin(MaxTaskRows) /\ SweepRoom
    \/ TaskWake /\ SweepRoom
    \/ TaskStop /\ SweepRoom

\* What a sweep of the loop does to the position of the task.
TaskSweepReturns == task_pc = "sweep" /\ task_pc' = "sleep"

\* The event loop runs what is ready: the created task starts, its sweep
\* and its sleep return, and a request that has begun runs to its end (a
\* request is made once, so no request can hold back another for ever).
FairTask ==
    /\ WF_vars(TaskRunFirstStep)
    /\ WF_task_pc(TaskSweepReturns)
    /\ WF_vars(TaskWake)
    /\ WF_vars(\/ ReminderCheckExisting
               \/ ReminderInsertPending /\ SweepRoom
               \/ ReminderTransport
               \/ ReminderFinalize)

SpecTask == Init /\ [][NextTask]_vars /\ FairTask

\* The background task with iterations that may fail, among guests added
\* and a day passing.
NextRun ==
    \/ AddGuest
    \/ TickDay
    \/ TaskStartBackground
    \/ TaskRunFirstStep
    \/ TaskRunIteration(MaxTaskRows)
    \/ TaskCatch
    \/ TaskWake
    \/ TaskStop

\* What an iteration of the loop does to the position of the task.
TaskIterationReturns == task_pc = "sweep" /\ task_pc' \in {"sleep", "caught"}

\* The event loop runs the task whenever it is ready: the body returns or
\* raises, the except clause falls through, the sleep returns.
FairRun ==
    /\ WF_task_pc(TaskIterationReturns)
    /\ WF_vars(TaskCatch)
    /\ WF_vars(TaskWake)

SpecRun == Init /\ [][NextRun]_vars /\ FairRun

\* Whole dispatches beside requests in flight, every one of which runs to
\* its end.
NextDispatch ==
    \/ AddKnownGuest /\ WithinRows
    \/ TickDay /\ WithinRows
    \/ SendTableReady /\ WithinRows
    \/ ReminderLoadEntry /\ WithinRows
    \/ ReminderCheckExisting /\ WithinRows
    \/ ReminderInsertPending /\ WithinRows
    \/ ReminderTransport /\ WithinRows
    \/ ReminderFinalize /\ WithinRows

FairDispatch ==
    WF_vars(\/ ReminderCheckExisting
            \/ ReminderInsertPending /\ WithinRows
            \/ ReminderTransport
            \/ ReminderFinalize)

SpecDispatch == Init /\ [][NextDispatch]_vars /\ FairDispatch

\* A dispatcher that may stop half-way, and the sweeps and dispatches made
\* later, when no dispatch is in flight.
NoDispatchInFlight == \A w \in Workers : attempts[w].pc \in {"idle", "done", "stopped"}

NextCrash ==
    \/ AddKnownGuest /\ WithinRows
    \/ TickDay
    \/ ReminderLoadEntry /\ NoDispatchInFlight
    \/ ReminderCheckExisting
    \/ ReminderInsertPending
    \/ ReminderTransport
    \/ ReminderFinalize
    \/ DispatcherStops
    \/ TriggerReminderCheck /\ NoDispatchInFlight /\ WithinRows

SpecCrash == Init /\ [][NextCrash]_vars

\* A sweep beside the staff: a status update may come in between the scan
\* and the call of send_reminder for a scanned entry.
SweepHoldsScannedEntry == attempts["sweep"].pc = "scanned"

NextStale ==
    \/ AddGuest
    \/ TickMinutes
    \/ UpdateStatus /\ SweepHoldsScannedEntry
    \/ SweepScanEntry
    \/ SweepCallSendReminder
    \/ ReminderCheckExisting
    \/ ReminderInsertPending
    \/ ReminderTransport
    \/ ReminderFinalize

SpecStale == Init /\ [][NextStale]_vars

\* Two overlapping dispatch attempts.
NextConc ==
    \/ AddGuest
    \/ TickMinutes
    \/ ReminderLoadEntry
    \/ ReminderCheckExisting
    \/ ReminderInsertPending
    \/ ReminderTransport
    \/ ReminderFinalize

SpecConc == Init /\ [][NextConc]_vars

\* Every request of the API, up to MaxEvents rows, tokens and clock steps.
WithinEvents == Len(entries') + Len(notifications') + token_seq' + TicksOf(now') <= MaxEvents

Next ==
    \/ AddGuest /\ WithinEvents
    \/ UpdateStatus /\ WithinEvents
    \/ ReorderEntries /\ WithinEvents
    \/ MarkVip /\ WithinEvents
    \/ GenerateGuestToken /\ WithinEvents
    \/ SendTableReady /\ WithinEvents
    \/ SendReminder /\ WithinEvents
    \/ TriggerReminderCheck /\ WithinEvents
    \/ TickDay /\ WithinEvents

Spec == Init /\ [][Next]_vars

(***************************************************************************)
(* Properties of the waitlist engine.                                      *)
(***************************************************************************)
\* C1: update_status on an existing entry succeeds exactly when the entry is
\* waiting and the target is seated, canceled or no_show, and then sets the
\* status; every other pair fails with InvalidStatusTransitionError carrying
\* the current and the target status, and leaves the status as it was.
\* Holds under SpecWaitlist.
UpdateStatusSucceedsIffFromWaiting ==
    \A entry_id \in 1..Len(entries), s \in WaitlistStatus :
        LET r == update_status(entries, entry_id, s)
            current == entries[entry_id].status
        IN  IF current = "waiting" /\ s \in {"seated", "canceled", "no_show"}
            THEN /\ r.err = "ok"
                 /\ r.entries[entry_id].status = s
            ELSE /\ r.err = "InvalidStatusTransitionError"
                 /\ r.current = current
                 /\ r.target = s
                 /\ r.entries[entry_id].status = current

\* C1 witness: a status update has succeeded on one entry while another is
\* still waiting, so both outcomes of update_status are exercised.
SeatedBesideWaiting ==
    \E i, j \in 1..Len(entries) :
        entries[i].status = "seated" /\ entries[j].status = "waiting"

\* C2: terminal statuses are permanent and no entry is deleted: over every
\* request (add_guest, update_status, reorder_entries, mark_vip, the token,
\* the sends and the sweep) the entry rows stay in place and an entry that
\* is seated, canceled or no_show keeps its status.  Holds under Spec.
TerminalStatusIsPermanent ==
    [][/\ Len(entries') >= Len(entries)
       /\ \A i \in 1..Len(entries) :
             /\ entries'[i].guest_id = entries[i].guest_id
             /\ entries'[i].created_at = entries[i].created_at
             /\ entries[i].status \in {"seated", "canceled", "no_show"}
                    => entries'[i].status = entries[i].status]_vars

\* C2 witness: a terminal entry that carries a token and a notification.
TerminalEntryWithTokenAndNotification ==
    \E i \in 1..Len(entries) :
        /\ entries[i].status \in {"seated", "canceled", "no_show"}
        /\ entries[i].guest_token # NoToken
        /\ \E n \in 1..Len(notifications) : notifications[n].waitlist_entry_id = i

\* C3 as stated: after any add, reorder or status change the positions of
\* the waiting entries are pairwise distinct and are exactly 1..N.  Refuted
\* under SpecOrdered: a status change does not renumber.
WaitingPositionsUniqueAndDense ==
    /\ \A i, j \in WaitingIds(entries) :
           i # j => entries[i].position # entries[j].position
    /\ {entries[i].position : i \in WaitingIds(entries)}
           = 1..Cardinality(WaitingIds(entries))

\* C3 amended: when every reorder lists each waiting entry exactly once, the
\* positions of the waiting entries are pairwise distinct after every add,
\* reorder and status change; they are exactly 1..N right after a reorder,
\* and an add keeps them 1..N if they were.  Holds under SpecOrdered.
WaitingPositionsDistinct ==
    [][/\ \A i, j \in WaitingIds(entries') :
              i # j => entries'[i].position # entries'[j].position
       /\ ReorderAllWaiting
              => {entries'[i].position : i \in WaitingIds(entries')}
                     = 1..Cardinality(WaitingIds(entries'))
       /\ (/\ AddGuest
           /\ {entries[i].position : i \in WaitingIds(entries)}
                  = 1..Cardinality(WaitingIds(entries)))
              => {entries'[i].position : i \in WaitingIds(entries')}
                     = 1..Cardinality(WaitingIds(entries'))]_vars

\* C3 witness: an entry has left the list and a waiting entry stands at a
\* position beyond the number of waiting entries.
WaitingPositionsWithGap ==
    /\ \E i \in 1..Len(entries) : entries[i].status # "waiting"
    /\ \E i \in WaitingIds(entries) :
           entries[i].position > Cardinality(WaitingIds(entries))

\* C4: without reorders, while every entry added so far is still waiting the
\* n entries hold positions 1..n in call order; and every successful
\* add_guest creates its entry waiting, with version 1, at the maximum
\* position of the waiting entries (0 if none) plus 1.  Holds under
\* SpecNoReorder.
SequentialAddsNumberInOrder ==
    /\ (\A i \in 1..Len(entries) : entries[i].status = "waiting")
           => \A i \in 1..Len(entries) : entries[i].position = i
    /\ \A name \in Names, party_size \in PartySizes, phone \in Phones, source \in Sources :
           LET r == add_guest(guests, entries, name, party_size, phone, source, now)
               e == r.entries[r.entry_id]
               W == WaitingIds(entries)
           IN  r.err = "ok" =>
                   /\ r.entry_id = Len(entries) + 1
                   /\ e.status = "waiting"
                   /\ e.version = 1
                   /\ \A i \in W : entries[i].position < e.position
                   /\ IF W = {} THEN e.position = 1
                      ELSE \E i \in W : e.position = entries[i].position + 1

\* C4 witness: two adds in a row, both entries still waiting.
TwoAddedBothWaiting ==
    /\ Len(entries) = MaxEntries
    /\ \A i \in 1..Len(entries) : entries[i].status = "waiting"

\* C5: append at tail.  A step that is not a reorder (an add, a status
\* update or a VIP toggle) leaves the position of every existing entry as it
\* was, and an entry it adds gets a position above that of every entry
\* waiting at the time; so an entry waiting when another is added stays ahead
\* of it until a reorder.  Holds under SpecWaitlist.
LaterArrivalStaysBehind ==
    [][(AddGuest \/ UpdateStatus \/ MarkVip) =>
          /\ \A a \in 1..Len(entries) : entries'[a].position = entries[a].position
          /\ \A b \in (Len(entries) + 1)..Len(entries'), a \in WaitingIds(entries) :
                 entries[a].position < entries'[b].position]_vars

\* C5 witness: an entry moved down by a reorder, and behind it an entry
\* added afterwards, both waiting.
LaterArrivalBehindReordered ==
    \E a, b \in WaitingIds(entries) :
        /\ a < b
        /\ entries[a].position > 1
        /\ entries[b].position = entries[a].position + 1

(***************************************************************************)
(* Properties of the notification dispatcher and of the reminder sweep.    *)
(***************************************************************************)
\* C6: duplicate prevention.  In every state reached by send_table_ready,
\* send_reminder and sweep calls made one after another, each waitlist entry
\* has at most one pending or sent notification of each type.  Holds under
\* SpecNotify.
AtMostOneActiveNotification ==
    \A n, m \in 1..Len(notifications) :
        (/\ n # m
         /\ notifications[n].waitlist_entry_id = notifications[m].waitlist_entry_id
         /\ notifications[n].notification_type = notifications[m].notification_type
         /\ notifications[n].status \in {"pending", "sent"})
            => notifications[m].status = "failed"

\* C6 witness: two notifications of one type for one entry, the later sent.
SentAfterFailedOfSameType ==
    \E n, m \in 1..Len(notifications) :
        /\ n < m
        /\ notifications[n].waitlist_entry_id = notifications[m].waitlist_entry_id
        /\ notifications[n].notification_type = notifications[m].notification_type
        /\ notifications[m].status = "sent"

\* C7: two calls in a row of send_table_ready, or of send_reminder, for one
\* entry with a succeeding transport: the first returns a sent notification,
\* the second fails with DuplicateNotificationError and leaves the
\* notification rows and the transport's calls as the first left them.
\* Holds under SpecNotify.
SecondSendIsRejected ==
    \A entry_id \in EntryIds, c1, c2 \in CustomMessages, success \in BOOLEAN :
        LET t1 == send_table_ready(notifications, sms_log, entries, guests, entry_id, c1,
                                   TRUE, now)
            t2 == send_table_ready(t1.notifications, t1.sms_log, entries, guests, entry_id,
                                   c2, success, now)
            r1 == send_reminder(notifications, sms_log, entries, guests, entry_id,
                                reminder_minutes_before, c1, TRUE, now)
            r2 == send_reminder(r1.notifications, r1.sms_log, entries, guests, entry_id,
                                reminder_minutes_before, c2, success, now)
        IN  /\ t1.err = "ok" =>
                /\ t1.notifications[t1.notification_id].status = "sent"
                /\ t1.notifications[t1.notification_id].notification_type = "table_ready"
                /\ t2.err = "DuplicateNotificationError"
                /\ t2.entry_id = entry_id
                /\ t2.notification_type = "table_ready"
                /\ t2.notifications = t1.notifications
                /\ t2.sms_log = t1.sms_log
            /\ r1.err = "ok" =>
                /\ r1.notifications[r1.notification_id].status = "sent"
                /\ r1.notifications[r1.notification_id].notification_type = "reminder"
                /\ r2.err = "DuplicateNotificationError"
                /\ r2.entry_id = entry_id
                /\ r2.notification_type = "reminder"
                /\ r2.notifications = r1.notifications
                /\ r2.sms_log = r1.sms_log

\* C7 witness: an entry whose table-ready message and whose reminder have
\* both been sent, so a further call of either kind is a second call.
BothKindsSent ==
    \E i \in 1..Len(entries), n, m \in 1..Len(notifications) :
        /\ notifications[n].waitlist_entry_id = i
        /\ notifications[m].waitlist_entry_id = i
        /\ notifications[n].notification_type = "table_ready"
        /\ notifications[m].notification_type = "reminder"
        /\ notifications[n].status = "sent"
        /\ notifications[m].status = "sent"
        /\ Len(sms_log) = Len(notifications)

\* C8 as stated: of two overlapping dispatch attempts for one entry at most
\* one creates a notification: they never both hold a notification row that
\* is pending or sent.  Refuted under SpecConc.
OverlappingAttemptsDispatchOnce ==
    \A v, w \in Workers :
        (/\ v # w
         /\ attempts[v].entry_id = attempts[w].entry_id
         /\ attempts[v].row # NoRow
         /\ attempts[w].row # NoRow)
            => \/ notifications[attempts[v].row].status = "failed"
               \/ notifications[attempts[w].row].status = "failed"

\* C9 as stated: a sweep of the reminder task sends nothing for an entry
\* whose reminder has already failed.  Refuted under SpecLoop.
SweepNeverResendsFailedReminder ==
    [][(task_pc = "sweep" /\ task_pc' = "sleep") =>
          \A n \in (Len(notifications) + 1)..Len(notifications') :
              ~\E m \in 1..Len(notifications) :
                  /\ notifications[m].waitlist_entry_id
                         = notifications'[n].waitlist_entry_id
                  /\ notifications[m].notification_type = "reminder"
                  /\ notifications[m].status = "failed"]_vars

\* C10: a failed notification does not block a retry.  When every
\* notification of a type for an entry is failed, and there is one, a new
\* send of that type is accepted, adds one notification row and calls the
\* transport once.  Holds under SpecNotify.
FailedDoesNotBlockRetry ==
    \A entry_id \in 1..Len(entries), ntype \in {"table_ready", "reminder"},
       custom_message \in CustomMessages, success \in BOOLEAN :
        LET rows == {n \in 1..Len(notifications) :
                        /\ notifications[n].waitlist_entry_id = entry_id
                        /\ notifications[n].notification_type = ntype}
            r == IF ntype = "table_ready"
                 THEN send_table_ready(notifications, sms_log, entries, guests, entry_id,
                                       custom_message, success, now)
                 ELSE send_reminder(notifications, sms_log, entries, guests, entry_id,
                                    reminder_minutes_before, custom_message, success, now)
        IN  (rows # {} /\ \A n \in rows : notifications[n].status = "failed") =>
                /\ r.err = "ok"
                /\ Len(r.notifications) = Len(notifications) + 1
                /\ r.notification_id = Len(notifications) + 1
                /\ r.notifications[r.notification_id].waitlist_entry_id = entry_id
                /\ r.notifications[r.notification_id].notification_type = ntype
                /\ r.notifications[r.notification_id].status
                       = (IF success THEN "sent" ELSE "failed")
                /\ \A n \in 1..Len(notifications) : r.notifications[n] = notifications[n]
                /\ Len(r.sms_log) = Len(sms_log) + 1

\* C10 witness: a send has been retried after a failure: a failed
\* notification followed by another of the same type for the same entry.
RetriedAfterFailure ==
    \E n, m \in 1..Len(notifications) :
        /\ n < m
        /\ notifications[n].waitlist_entry_id = notifications[m].waitlist_entry_id
        /\ notifications[n].notification_type = notifications[m].notification_type
        /\ notifications[n].status = "failed"

\* C11: a send_table_ready or send_reminder call that passes the entry, the
\* duplicate and the phone check returns its notification in a final state:
\* sent with sent_at set when the transport succeeds, failed with sent_at
\* null when the transport returns false or its exception was translated
\* to false; no call leaves or returns a pending notification, and the only
\* exceptions are those of the three checks.  Holds under SpecNotify.
DispatchReturnsFinalNotification ==
    /\ \A n \in 1..Len(notifications) :
           /\ notifications[n].status \in {"sent", "failed"}
           /\ notifications[n].status = "sent" <=> notifications[n].sent_at # NoTime
    /\ \A entry_id \in EntryIds, ntype \in {"table_ready", "reminder"},
          custom_message \in CustomMessages, outcome \in TransportOutcomes :
           LET success == TwilioAdapter_send(outcome)
               r == IF ntype = "table_ready"
                    THEN send_table_ready(notifications, sms_log, entries, guests,
                                          entry_id, custom_message, success, now)
                    ELSE send_reminder(notifications, sms_log, entries, guests, entry_id,
                                       reminder_minutes_before, custom_message, success, now)
               passes ==
                   /\ entry_id \in 1..Len(entries)
                   /\ ~\E n \in 1..Len(notifications) :
                          /\ notifications[n].waitlist_entry_id = entry_id
                          /\ notifications[n].notification_type = ntype
                          /\ notifications[n].status \in {"pending", "sent"}
                   /\ guests[entries[entry_id].guest_id].phone_number # ""
           IN  IF passes
               THEN /\ r.err = "ok"
                    /\ r.notifications[r.notification_id].status
                           = (IF outcome = "accepted" THEN "sent" ELSE "failed")
                    /\ r.notifications[r.notification_id].sent_at
                           = (IF outcome = "accepted" THEN now ELSE NoTime)
               ELSE r.err \in {"EntryNotFoundError", "DuplicateNotificationError",
                               "ValueError"}

\* C11 witness: a table-ready message that was sent and a reminder whose
\* transport failed, each stamped accordingly.
SentAndFailedRecorded ==
    \E n, m \in 1..Len(notifications) :
        /\ notifications[n].notification_type = "table_ready"
        /\ notifications[n].status = "sent"
        /\ notifications[n].sent_at = now
        /\ notifications[m].notification_type = "reminder"
        /\ notifications[m].status = "failed"
        /\ notifications[m].sent_at = NoTime

\* C12: a dispatcher call that returns a notification makes exactly one
\* transport call, to the guest's phone number with the stored message; a
\* call that raises makes none.  So the transport calls made so far are, one
\* for one and in order, those of the sent and failed notifications.  Holds
\* under SpecNotify.
OneTransportCallPerNotification ==
    /\ Len(sms_log)
          = Cardinality({n \in 1..Len(notifications) :
                            notifications[n].status \in {"sent", "failed"}})
    /\ \A n \in 1..Len(notifications) :
           n <= Len(sms_log) =>
               /\ sms_log[n].to = notifications[n].phone_number
               /\ sms_log[n].message = notifications[n].message
    /\ \A entry_id \in EntryIds, ntype \in {"table_ready", "reminder"},
          custom_message \in CustomMessages, success \in BOOLEAN :
           LET r == IF ntype = "table_ready"
                    THEN send_table_ready(notifications, sms_log, entries, guests,
                                          entry_id, custom_message, success, now)
                    ELSE send_reminder(notifications, sms_log, entries, guests, entry_id,
                                       reminder_minutes_before, custom_message, success, now)
           IN  IF r.err = "ok"
               THEN /\ Len(r.sms_log) = Len(sms_log) + 1
                    /\ \A k \in 1..Len(sms_log) : r.sms_log[k] = sms_log[k]
                    /\ r.sms_log[Len(r.sms_log)].to
                           = guests[entries[entry_id].guest_id].phone_number
                    /\ r.sms_log[Len(r.sms_log)].message
                           = r.notifications[r.notification_id].message
               ELSE r.sms_log = sms_log

\* C12 witness: one guest without a phone number, whose sends raise, beside
\* a guest whose two sends each called the transport.
RaisingGuestBesideTwoCalls ==
    /\ \E i \in 1..Len(entries) : guests[entries[i].guest_id].phone_number = ""
    /\ Len(sms_log) = MaxNotifications
    /\ \E n \in 1..Len(notifications) : notifications[n].status = "failed"

\* C13: the scan for due reminders, run now or some minutes from now,
\* returns an entry, once, exactly when the entry is waiting, the time has
\* reached created_at + position * avg_turn_time - reminder_minutes_before
\* (the threshold itself included) and the entry has no pending or sent
\* reminder.  With the configured 15 and 10 minutes an entry at position 1
\* is left out when just created and returned 6 minutes later.  Holds under
\* SpecScan.
DueIffWaitingPastThresholdWithoutReminder ==
    \A d \in {0, 4, 5, 6, 19, 20, 21} :
        LET t == now + d
            scan == get_entries_due_for_reminder(entries, notifications,
                        reminder_minutes_before, DEFAULT_AVG_TURN_TIME_MINUTES, t)
            returned == {scan.due[k] : k \in 1..Len(scan.due)}
            reminded(i) ==
                \E n \in 1..Len(notifications) :
                    /\ notifications[n].waitlist_entry_id = i
                    /\ notifications[n].notification_type = "reminder"
                    /\ notifications[n].status \in {"pending", "sent"}
        IN  /\ scan.err = "ok"
            /\ Cardinality(returned) = Len(scan.due)
            /\ \A i \in 1..Len(entries) :
                   i \in returned <=>
                       /\ entries[i].status = "waiting"
                       /\ t >= entries[i].created_at
                                + entries[i].position * DEFAULT_AVG_TURN_TIME_MINUTES
                                - reminder_minutes_before
                       /\ ~reminded(i)
            /\ \A i \in 1..Len(entries) :
                   (/\ entries[i].status = "waiting"
                    /\ entries[i].position = 1
                    /\ entries[i].created_at = now
                    /\ ~reminded(i))
                       => /\ d = 0 => i \notin returned
                          /\ d = 6 => i \in returned

\* C13 witness: the clock stands exactly at the threshold of a waiting entry
\* whose only reminder failed, beside a waiting entry whose threshold is
\* still ahead.
AtThresholdBesideNotYetDue ==
    \E i, j \in WaitingIds(entries) :
        /\ now = reminder_threshold(entries[i], reminder_minutes_before,
                                    DEFAULT_AVG_TURN_TIME_MINUTES)
        /\ \E n \in 1..Len(notifications) :
               /\ notifications[n].waitlist_entry_id = i
               /\ notifications[n].notification_type = "reminder"
               /\ notifications[n].status = "failed"
        /\ now < reminder_threshold(entries[j], reminder_minutes_before,
                                    DEFAULT_AVG_TURN_TIME_MINUTES)

\* C14: one sweep attempts send_reminder once for every entry of its list,
\* whatever happens to the others: an entry that exists, has no pending or
\* sent reminder and has a phone number gets exactly one new reminder row
\* and one transport call, an entry whose send raises (not found, duplicate,
\* no phone number) gets none, and the sweep itself returns normally.  It
\* holds for the list the scan returns now and for a list other requests
\* have overtaken.  Holds under SpecScan.
SweepAttemptsEveryDueEntry ==
    \A due \in ScannedLists :
      \A oks \in [{due[k] : k \in 1..Len(due)} -> BOOLEAN] :
        LET r == sweep_from(due, 1, notifications, sms_log, <<>>, entries, guests, oks, now)
            scan == get_entries_due_for_reminder(entries, notifications,
                        reminder_minutes_before, DEFAULT_AVG_TURN_TIME_MINUTES, now)
            whole == check_and_send_reminders(notifications, sms_log, entries, guests, oks,
                                              now)
            dispatchable(i) ==
                /\ i \in 1..Len(entries)
                /\ guests[entries[i].guest_id].phone_number # ""
                /\ ~\E n \in 1..Len(notifications) :
                       /\ notifications[n].waitlist_entry_id = i
                       /\ notifications[n].notification_type = "reminder"
                       /\ notifications[n].status \in {"pending", "sent"}
            added(i) ==
                {n \in (Len(notifications) + 1)..Len(r.notifications) :
                    /\ r.notifications[n].waitlist_entry_id = i
                    /\ r.notifications[n].notification_type = "reminder"}
        IN  /\ r.err = "ok"
            /\ \A k \in 1..Len(due) :
                   Cardinality(added(due[k])) = (IF dispatchable(due[k]) THEN 1 ELSE 0)
            /\ Len(r.notifications)
                  = Len(notifications)
                      + Cardinality({k \in 1..Len(due) : dispatchable(due[k])})
            /\ Len(r.sms_log) - Len(sms_log) = Len(r.notifications) - Len(notifications)
            /\ \A n \in 1..Len(notifications) : r.notifications[n] = notifications[n]
            /\ (scan.err = "ok" /\ due = scan.due) => whole = r

\* C14 witness: two waiting entries past their thresholds, the first without
\* a phone number and so without a reminder, the second with its reminder.
RemindedBehindRaisingEntry ==
    \E i, j \in WaitingIds(entries) :
        /\ i < j
        /\ now >= reminder_threshold(entries[j], reminder_minutes_before,
                                     DEFAULT_AVG_TURN_TIME_MINUTES)
        /\ now >= reminder_threshold(entries[i], reminder_minutes_before,
                                     DEFAULT_AVG_TURN_TIME_MINUTES)
        /\ guests[entries[i].guest_id].phone_number = ""
        /\ \E n \in 1..Len(notifications) :
               /\ notifications[n].waitlist_entry_id = j
               /\ notifications[n].notification_type = "reminder"

\* C15 as stated: every id the sweep returns is that of an entry that has a
\* sent reminder after the sweep, and the id of an entry whose dispatch
\* failed is not returned.  Refuted under SpecNotify: an entry whose
\* transport call failed is returned too.
SweepReturnsOnlySentEntries ==
    \A oks \in [1..MaxEntries -> BOOLEAN] :
        LET r == check_and_send_reminders(notifications, sms_log, entries, guests, oks, now)
            returned == {r.sent_entry_ids[k] : k \in 1..Len(r.sent_entry_ids)}
        IN  /\ \A i \in returned :
                   \E n \in 1..Len(r.notifications) :
                       /\ r.notifications[n].waitlist_entry_id = i
                       /\ r.notifications[n].notification_type = "reminder"
                       /\ r.notifications[n].status = "sent"
            /\ \A n \in (Len(notifications) + 1)..Len(r.notifications) :
                   r.notifications[n].status = "failed"
                       => r.notifications[n].waitlist_entry_id \notin returned

\* C16: reorder_entries on a list of existing ids gives the entry listed at
\* index k (counted from 1) the position k, leaves unlisted entries where
\* they were and returns the entries in the order given; the estimate
\* computed right afterwards is that of the new position.  When an id is
\* listed more than once its last place stands.  So with a at 1 and b at 2,
\* reorder_entries([b, a]) puts b at 1 and a at 2.  Holds under SpecWaitlist.
ReorderAssignsListedOrder ==
    \A entry_ids \in ReorderRequests :
        LET r == reorder_entries(entries, entry_ids)
            resp == reorder_response(entries, entry_ids, DEFAULT_AVG_TURN_TIME_MINUTES)
            listed == {entry_ids[k] : k \in 1..Len(entry_ids)}
            last(i) == SetMax({k \in 1..Len(entry_ids) : entry_ids[k] = i})
        IN  listed \subseteq 1..Len(entries) =>
                /\ r.err = "ok"
                /\ resp.err = "ok"
                /\ Len(r.entries) = Len(entries)
                /\ \A i \in listed : r.entries[i].position = last(i)
                /\ \A i \in (1..Len(entries)) \ listed :
                       r.entries[i].position = entries[i].position
                /\ \A i \in 1..Len(entries) :
                       r.entries[i] = [entries[i] EXCEPT !.position = r.entries[i].position]
                /\ Len(resp.body) = Len(entry_ids)
                /\ \A k \in 1..Len(entry_ids) :
                       /\ resp.body[k].id = entry_ids[k]
                       /\ resp.body[k].position = last(entry_ids[k])
                       /\ resp.body[k].eta_minutes
                              = (last(entry_ids[k]) - 1) * DEFAULT_AVG_TURN_TIME_MINUTES
                /\ Cardinality(listed) = Len(entry_ids) =>
                       \A k \in 1..Len(entry_ids) :
                           /\ r.entries[entry_ids[k]].position = k
                           /\ resp.body[k].position = k

\* C16 witness: two waiting entries that a reorder has swapped: the later
\* arrival stands at 1 and the earlier at 2.
SwappedByReorder ==
    \E a, b \in WaitingIds(entries) :
        /\ a < b
        /\ entries[b].position = 1
        /\ entries[a].position = 2

\* C17 as stated: a reorder_entries call that lists an id that does not
\* exist fails with EntryNotFoundError for that id and leaves the position
\* of every entry, those listed before the missing id included, as it was.
\* Refuted under SpecWaitlist: the entries listed before the missing id
\* have been given their new positions when the exception is raised.
FailedReorderChangesNothing ==
    \A entry_ids \in ReorderRequests :
        LET r == reorder_entries(entries, entry_ids)
            missing == {k \in 1..Len(entry_ids) : entry_ids[k] \notin 1..Len(entries)}
        IN  missing # {} =>
                /\ r.err = "EntryNotFoundError"
                /\ \E k \in missing : /\ r.entry_id = entry_ids[k]
                                       /\ \A j \in missing : k <= j
                /\ \A i \in 1..Len(entries) : r.entries[i].position = entries[i].position

\* C18: once an entry exists its position changes only in a reorder step:
\* an add of another party, a status update of this or another entry, a VIP
\* toggle, the generation of a token, a table-ready message, a reminder and
\* a sweep all leave the position of every existing entry as it was.  Holds
\* under Spec.
PositionChangesOnlyByReorder ==
    [][/\ (\/ AddGuest
           \/ UpdateStatus
           \/ MarkVip
           \/ GenerateGuestToken
           \/ SendTableReady
           \/ SendReminder
           \/ TriggerReminderCheck
           \/ TickDay)
              => \A i \in 1..Len(entries) : entries'[i].position = entries[i].position
       /\ (\E i \in 1..Len(entries) : entries'[i].position # entries[i].position)
              => ReorderEntries]_vars

\* C18 witness: an entry still at position 2 with its VIP flag and a token,
\* after the entry at position 1 ahead of it was seated.
SecondInLineAfterFirstSeated ==
    \E i, j \in 1..Len(entries) :
        /\ entries[i].status = "seated"
        /\ entries[i].position = 1
        /\ entries[j].status = "waiting"
        /\ entries[j].position = 2
        /\ entries[j].vip_flag
        /\ entries[j].guest_token # NoToken

\* C19: mark_vip on an existing entry sets the flag to the value given and
\* changes nothing else of any entry, so a repeated call changes nothing
\* more and mark_vip(false) after mark_vip(true) clears the flag; on a
\* missing id it fails with EntryNotFoundError and changes nothing.  Holds
\* under SpecWaitlist.
MarkVipSetsOnlyTheFlag ==
    \A entry_id \in EntryIds, vip \in BOOLEAN :
        LET r == mark_vip(entries, entry_id, vip)
            again == mark_vip(r.entries, entry_id, vip)
            undone == mark_vip(mark_vip(entries, entry_id, TRUE).entries, entry_id, FALSE)
        IN  IF entry_id \in 1..Len(entries)
            THEN /\ r.err = "ok"
                 /\ Len(r.entries) = Len(entries)
                 /\ r.entries[entry_id].vip_flag = vip
                 /\ \A i \in 1..Len(entries) :
                        /\ r.entries[i].status = entries[i].status
                        /\ r.entries[i].position = entries[i].position
                        /\ i # entry_id => r.entries[i] = entries[i]
                 /\ again.err = "ok"
                 /\ again.entries = r.entries
                 /\ undone.err = "ok"
                 /\ undone.entries[entry_id].vip_flag = FALSE
                 /\ undone.entries[entry_id].position = entries[entry_id].position
            ELSE /\ r.err = "EntryNotFoundError"
                 /\ r.entries = entries

\* C19 witness: a VIP waiting at position 2 behind an entry that is not one.
VipBehindNonVip ==
    \E a, b \in WaitingIds(entries) :
        /\ ~entries[a].vip_flag
        /\ entries[a].position = 1
        /\ entries[b].vip_flag
        /\ entries[b].position = 2

WaitingViewIsSortedWaitingEntries ==
    [][/\ get_all_waiting(entries') # {}
       /\ \A view \in get_all_waiting(entries') :
              /\ \A i \in 1..Len(entries') :
                     Cardinality({k \in 1..Len(view) : view[k] = i})
                         = (IF entries'[i].status = "waiting" THEN 1 ELSE 0)
              /\ \A k \in 1..Len(view) : view[k] \in 1..Len(entries')
              /\ \A k \in 1..(Len(view) - 1) :
                     entries'[view[k]].position <= entries'[view[k + 1]].position
              /\ \A i \in 1..Len(entries) :
                     (entries[i].status = "waiting" /\ entries'[i].status # "waiting")
                         => \A k \in 1..Len(view) : view[k] # i]_vars

\* C21 witness: a canceled entry behind which, by position, nothing waits,
\* and a waiting entry ahead of it that is still in the view.
CanceledBehindWaiting ==
    \E i, j \in 1..Len(entries) :
        /\ entries[i].status = "canceled"
        /\ entries[j].status = "waiting"
        /\ entries[j].position < entries[i].position

\* C22: add_guest with a party size below 1 fails with InvalidPartySize
\* carrying that size, whatever the name and the phone number: no guest and
\* no entry is created and every entry is as it was.  Holds under
\* SpecNoReorder.
InvalidPartySizeChangesNothing ==
    \A name \in Names, phone \in Phones, source \in Sources, party_size \in (-1)..1 :
        LET r == add_guest(guests, entries, name, party_size, phone, source, now)
        IN  IF party_size < 1
            THEN /\ r.err = "InvalidPartySize"
                 /\ r.party_size = party_size
                 /\ r.entry_id = NoRow
                 /\ r.guests = guests
                 /\ r.entries = entries
            ELSE /\ r.err = "ok"
                 /\ Len(r.entries) = Len(entries) + 1

\* C22 witness: a list with a seated and a waiting entry of two guests, on
\* which a rejected add must leave guests, entries and positions alone.
TwoGuestsOneSeated ==
    /\ Len(guests) = MaxEntries
    /\ \E i, j \in 1..Len(entries) :
           /\ entries[i].status = "seated"
           /\ entries[j].status = "waiting"
           /\ entries[i].guest_id # entries[j].guest_id

\* C23: a guest is identified by the exact phone string.  add_guest creates
\* a guest, with the given name and phone, only when no guest has that
\* phone, and otherwise links the new entry to the guest that has it and
\* leaves the guests as they were; so no two guests share a phone, and
\* no step removes or changes a guest.  Holds under SpecNoReorder.
OneGuestPerPhone ==
    [][/\ \A g, h \in 1..Len(guests') :
              g # h => guests'[g].phone_number # guests'[h].phone_number
       /\ Len(guests') >= Len(guests)
       /\ \A g \in 1..Len(guests) : guests'[g] = guests[g]
       /\ \A name \in Names, phone \in Phones, source \in Sources :
              LET r == add_guest(guests, entries, name, 1, phone, source, now)
                  known == {g \in 1..Len(guests) : guests[g].phone_number = phone}
                  e == r.entries[r.entry_id]
              IN  /\ r.err = "ok"
                  /\ IF known = {}
                     THEN /\ r.guests
                                = Append(guests, [name |-> name, phone_number |-> phone])
                          /\ e.guest_id = Len(guests) + 1
                     ELSE /\ r.guests = guests
                          /\ e.guest_id \in known]_vars

\* C23 witness: two entries of one guest: the second add found the phone.
TwoEntriesOneGuest ==
    /\ Len(guests) = 1
    /\ \E i, j \in 1..Len(entries) : i # j /\ entries[i].guest_id = entries[j].guest_id

\* C24: is_token_valid is true exactly when the entry has a token and the
\* time is before token_expires_at: false while no token was issued, true
\* right after generate_guest_token with a positive lifetime and up to the
\* last minute before the expiry, false at the expiry instant and after it,
\* and true again once a token is generated anew, on an expired entry too.
\* Holds under SpecToken.
TokenValidIffIssuedAndUnexpired ==
    \A i \in 1..Len(entries) :
        /\ is_token_valid(entries[i], now)
              <=> (entries[i].guest_token # NoToken /\ now < entries[i].token_expires_at)
        /\ entries[i].guest_token = NoToken
              => \A later \in {0, 1, DayStep} : ~is_token_valid(entries[i], now + later)
        /\ entries[i].guest_token # NoToken
              => /\ entries[i].token_expires_at # NoTime
                 /\ ~is_token_valid(entries[i], entries[i].token_expires_at)
                 /\ ~is_token_valid(entries[i], entries[i].token_expires_at + 1)
                 /\ is_token_valid(entries[i], entries[i].token_expires_at - 1)
        /\ \A expiry_hours \in {1, DEFAULT_TOKEN_EXPIRY_HOURS} :
               LET e == generate_guest_token(entries, i, token_seq + 1, expiry_hours,
                                             now)[i]
                   life == expiry_hours * MinutesPerHour
               IN  /\ e.token_expires_at = now + life
                   /\ is_token_valid(e, now)
                   /\ is_token_valid(e, now + life - 1)
                   /\ ~is_token_valid(e, now + life)
                   /\ ~is_token_valid(e, now + life + 1)

\* C24 witness: an entry whose token was issued a day ago: the clock stands
\* at the expiry instant.
TokenAtExpiryInstant ==
    \E i \in 1..Len(entries) :
        /\ entries[i].guest_token # NoToken
        /\ now = entries[i].token_expires_at

\* C25: issuing a token overwrites the prior one.  After a step that issues
\* a token to an entry the lookup by the new token finds that entry and the
\* lookup by the token the entry had before finds nothing; and at any time
\* each token issued so far resolves to at most one entry and each entry is
\* found by at most one token.  Holds under SpecToken.
LatestTokenOnly ==
    [][/\ token_seq' # token_seq
            => \E i \in 1..Len(entries) :
                  /\ get_entry_by_token(entries', token_seq') = i
                  /\ entries'[i].guest_token \notin {entries[j].guest_token :
                                                         j \in 1..Len(entries)}
                  /\ entries[i].guest_token # NoToken
                         => get_entry_by_token(entries', entries[i].guest_token) = NoRow
                  /\ \A j \in 1..Len(entries) \ {i} :
                         entries'[j].guest_token = entries[j].guest_token
       /\ \A token \in 1..token_seq' :
              get_entry_by_token(entries', token) # ManyRows
       /\ \A i \in 1..Len(entries') :
              Cardinality({token \in 1..token_seq' :
                              get_entry_by_token(entries', token) = i}) <= 1]_vars

\* C25 witness: the second token issued is on an entry and the first is on
\* none: it was overwritten.
FirstTokenOverwritten ==
    /\ token_seq = MaxTokens
    /\ \E i \in 1..Len(entries) : entries[i].guest_token = token_seq
    /\ \A i \in 1..Len(entries) : entries[i].guest_token # 1

\* C26: cooperative stop.  Once the reminder task has been started, by
\* start_background or by run, and stop() has put the flag down, the run
\* loop eventually terminates.  Refuted under SpecTask: the flag a stop()
\* puts down before the created task has run is raised again by run().
StopEndsTheLoop ==
    (task_pc \in {"created", "sweep", "sleep"} /\ ~running) ~> (task_pc = "done")

\* C27: at-least-once reminders.  While the loop keeps running, an entry
\* that is waiting with a guest phone number and past its reminder threshold
\* eventually has a reminder notification recorded as sent or failed, unless
\* it leaves the list or the loop is stopped.  Refuted under SpecTask: two
\* active reminder rows of one entry make every later scan raise.
DueEntryEventuallyAttempted ==
    \A i \in 1..MaxEntries :
        (/\ running /\ task_pc \in {"sweep", "sleep"}
         /\ i \in PastThreshold(entries, reminder_minutes_before,
                                 DEFAULT_AVG_TURN_TIME_MINUTES, now)
         /\ guests[entries[i].guest_id].phone_number # "")
        ~> (\/ ~running
            \/ i \in 1..Len(entries) /\ entries[i].status # "waiting"
            \/ \E n \in 1..Len(notifications) :
                  /\ notifications[n].waitlist_entry_id = i
                  /\ notifications[n].notification_type = "reminder"
                  /\ notifications[n].status \in {"sent", "failed"})

\* C28: notification lifecycle.  A row is inserted as pending before its
\* transport call (a step that inserts a pending row calls no transport, a
\* transport call of a request in flight is for a row that is pending, and
\* a whole dispatch adds one transport call per row it adds); a pending row
\* only ever changes to sent or failed, which it eventually does; a sent or
\* failed row never changes again; no row ever changes its entry, type,
\* phone number or message; no row is removed; and sent_at is set exactly
\* on the sent rows.  Holds under SpecDispatch.
NotificationLifecycle ==
    /\ [][/\ Len(notifications') >= Len(notifications)
          /\ \A n \in 1..Len(notifications) :
                LET before == notifications[n]
                    after == notifications'[n]
                IN  /\ before.status \in {"sent", "failed"} => after = before
                    /\ after.status # before.status
                          => before.status = "pending" /\ after.status \in {"sent", "failed"}
                    /\ [after EXCEPT !.status = before.status, !.sent_at = before.sent_at]
                          = before
          /\ \A n \in (Len(notifications) + 1)..Len(notifications') :
                \/ notifications'[n].status = "pending" /\ sms_log' = sms_log
                \/ /\ notifications'[n].status \in {"sent", "failed"}
                   /\ Len(sms_log') - Len(sms_log) = Len(notifications') - Len(notifications)
          /\ (Len(sms_log') > Len(sms_log) /\ Len(notifications') = Len(notifications))
                => \E n \in 1..Len(notifications) :
                      /\ notifications[n].status = "pending"
                      /\ notifications'[n].status = "pending"
                      /\ sms_log' = Append(sms_log, [to |-> notifications[n].phone_number,
                                                     message |-> notifications[n].message])
          /\ \A n \in 1..Len(notifications') :
                (notifications'[n].sent_at # NoTime) <=> (notifications'[n].status = "sent")
         ]_vars
    /\ \A n \in 1..MaxNotifications :
          (n <= Len(notifications) /\ notifications[n].status = "pending")
              ~> (n <= Len(notifications) /\ notifications[n].status \in {"sent", "failed"})

\* C28 witness: a failed row that was inserted by a whole dispatch beside a
\* row still pending of which the transport was already called.
FailedBesidePendingInFlight ==
    /\ \E n \in 1..Len(notifications) :
          /\ notifications[n].status = "failed"
          /\ notifications[n].notification_type = "table_ready"
    /\ \E w \in Workers :
          /\ attempts[w].pc = "final"
          /\ notifications[attempts[w].row].status = "pending"

DispatcherChecksInOrder ==
    \A entry_id \in EntryIds, ntype \in {"table_ready", "reminder"},
       custom_message \in CustomMessages, success \in BOOLEAN,
       es \in {entries, <<>>},
       gs \in {guests, [g \in 1..Len(guests) |-> [guests[g] EXCEPT !.phone_number = ""]]} :
        LET r == IF ntype = "table_ready"
                 THEN send_table_ready(notifications, sms_log, es, gs, entry_id,
                                       custom_message, success, now)
                 ELSE send_reminder(notifications, sms_log, es, gs, entry_id,
                                    reminder_minutes_before, custom_message, success, now)
            missing == entry_id \notin 1..Len(es)
            active == \E n \in 1..Len(notifications) :
                          /\ notifications[n].waitlist_entry_id = entry_id
                          /\ notifications[n].notification_type = ntype
                          /\ notifications[n].status \in {"pending", "sent"}
        IN  /\ r.err = IF missing THEN "EntryNotFoundError"
                       ELSE IF active THEN "DuplicateNotificationError"
                       ELSE IF gs[es[entry_id].guest_id].phone_number = "" THEN "ValueError"
                       ELSE "ok"
            /\ r.err # "ok" => r.notifications = notifications /\ r.sms_log = sms_log
            /\ r.err = "ok" => /\ Len(r.notifications) = Len(notifications) + 1
                               /\ Len(r.sms_log) = Len(sms_log) + 1

\* C30 witness: an entry with a sent table-ready notification beside an
\* entry whose guest has no phone number.
NotifiedBesideNoPhone ==
    /\ \E n \in 1..Len(notifications) :
          /\ notifications[n].notification_type = "table_ready"
          /\ notifications[n].status = "sent"
    /\ \E i \in 1..Len(entries) : guests[entries[i].guest_id].phone_number = ""

\* C31: the duplicate guard is per entry and type.  In every state reached
\* by sends made one after another, send_table_ready for an entry raises
\* DuplicateNotificationError exactly when that entry has a pending or sent
\* table_ready row, and send_reminder exactly when it has a pending or sent
\* reminder row: rows of the other type and rows of other entries make no
\* difference, and the call made on the entry's own rows of that type alone
\* ends the same way.  Holds under SpecSend.
DuplicateGuardIsPerEntryAndType ==
    \A i \in 1..Len(entries), c \in CustomMessages, success \in BOOLEAN :
        LET active(T) == \E n \in 1..Len(notifications) :
                             /\ notifications[n].waitlist_entry_id = i
                             /\ notifications[n].notification_type = T
                             /\ notifications[n].status \in {"pending", "sent"}
            own(T) == SelectSeq(notifications,
                                LAMBDA n : /\ n.waitlist_entry_id = i
                                           /\ n.notification_type = T)
            phone == guests[entries[i].guest_id].phone_number
            t == send_table_ready(notifications, sms_log, entries, guests, i, c, success,
                                  now)
            r == send_reminder(notifications, sms_log, entries, guests, i,
                               reminder_minutes_before, c, success, now)
        IN  /\ (t.err = "DuplicateNotificationError") <=> active("table_ready")
            /\ (r.err = "DuplicateNotificationError") <=> active("reminder")
            /\ t.err = send_table_ready(own("table_ready"), sms_log, entries, guests, i, c,
                                        success, now).err
            /\ r.err = send_reminder(own("reminder"), sms_log, entries, guests, i,
                                     reminder_minutes_before, c, success, now).err
            /\ (~active("table_ready") /\ phone # "") =>
                   /\ t.err = "ok"
                   /\ Len(t.notifications) = Len(notifications) + 1
                   /\ t.notifications[t.notification_id].waitlist_entry_id = i
                   /\ t.notifications[t.notification_id].notification_type = "table_ready"
            /\ (~active("reminder") /\ phone # "") =>
                   /\ r.err = "ok"
                   /\ Len(r.notifications) = Len(notifications) + 1
                   /\ r.notifications[r.notification_id].waitlist_entry_id = i
                   /\ r.notifications[r.notification_id].notification_type = "reminder"

\* C31 witness: an entry with a sent table_ready row and no reminder row,
\* beside another entry whose reminder was sent: a reminder for the first
\* entry meets an active row of the other type and one of another entry.
TableReadyBesideOtherEntrysReminder ==
    \E i, j \in 1..Len(entries), n, m \in 1..Len(notifications) :
        /\ i # j
        /\ guests[entries[i].guest_id].phone_number # ""
        /\ notifications[n].waitlist_entry_id = i
        /\ notifications[n].notification_type = "table_ready"
        /\ notifications[n].status = "sent"
        /\ notifications[m].waitlist_entry_id = j
        /\ notifications[m].notification_type = "reminder"
        /\ notifications[m].status = "sent"
        /\ \A k \in 1..Len(notifications) :
               notifications[k].waitlist_entry_id = i =>
                   notifications[k].notification_type # "reminder"

\* C32: the sweep is idempotent for delivered reminders.  Once an entry has
\* a sent reminder, the scan succeeds and never lists the entry; a sweep of
\* the loop, and two sweeps run one after the other from any state, add no
\* row for the entry and make one transport call for each row they add, so
\* none for the entry; the sent row stays as it is; and no entry has two
\* sent reminders.  Holds under SpecLoop.
SentReminderEndsSweeping ==
    /\ [](\A i \in 1..Len(entries) :
            (\E n \in 1..Len(notifications) :
                 /\ notifications[n].waitlist_entry_id = i
                 /\ notifications[n].notification_type = "reminder"
                 /\ notifications[n].status = "sent")
            => LET scan == get_entries_due_for_reminder(entries, notifications,
                               reminder_minutes_before, DEFAULT_AVG_TURN_TIME_MINUTES, now)
               IN  /\ scan.err = "ok"
                   /\ \A k \in 1..Len(scan.due) : scan.due[k] # i
                   /\ \A oks1, oks2 \in [1..MaxEntries -> BOOLEAN] :
                         LET r1 == check_and_send_reminders(notifications, sms_log, entries,
                                                            guests, oks1, now)
                             r2 == check_and_send_reminders(r1.notifications, r1.sms_log,
                                                            entries, guests, oks2, now)
                         IN  /\ \A n \in (Len(notifications) + 1)..Len(r2.notifications) :
                                    r2.notifications[n].waitlist_entry_id # i
                             /\ Len(r2.sms_log) - Len(sms_log)
                                    = Len(r2.notifications) - Len(notifications)
                             /\ \A k \in 1..Len(r1.sent_entry_ids) : r1.sent_entry_ids[k] # i
                             /\ \A k \in 1..Len(r2.sent_entry_ids) : r2.sent_entry_ids[k] # i
                   /\ \A n, m \in 1..Len(notifications) :
                         (/\ notifications[n].waitlist_entry_id = i
                          /\ notifications[m].waitlist_entry_id = i
                          /\ notifications[n].notification_type = "reminder"
                          /\ notifications[m].notification_type = "reminder"
                          /\ notifications[n].status = "sent"
                          /\ notifications[m].status = "sent") => n = m)
    /\ [][\A n \in 1..Len(notifications) :
             (/\ notifications[n].notification_type = "reminder"
              /\ notifications[n].status = "sent")
             => /\ notifications'[n] = notifications[n]
                /\ (task_pc = "sweep" /\ task_pc' = "sleep") =>
                      /\ \A m \in (Len(notifications) + 1)..Len(notifications') :
                            notifications'[m].waitlist_entry_id
                                # notifications[n].waitlist_entry_id
                      /\ Len(sms_log') - Len(sms_log)
                            = Len(notifications') - Len(notifications)
         ]_vars

\* C32 witness: the loop is about to sweep over a waiting entry that is
\* past its threshold and has a sent reminder.
SweepingAgainPastSentReminder ==
    /\ task_pc = "sweep"
    /\ \E i \in PastThreshold(entries, reminder_minutes_before,
                              DEFAULT_AVG_TURN_TIME_MINUTES, now),
          n \in 1..Len(notifications) :
          /\ notifications[n].waitlist_entry_id = i
          /\ notifications[n].notification_type = "reminder"
          /\ notifications[n].status = "sent"
          /\ Len(sms_log) > 0

\* C33: the loop survives a failing iteration.  Whatever raises inside an
\* iteration (the session, the scan, a dispatch, the commit), the body ends
\* in the sleep or in the except clause, which leaves the flag alone and
\* goes on to the sleep; the loop only ends from the sleep with the flag
\* cleared; and after a caught exception the sleep is reached and, while the
\* task is running, the next sweep.  Holds under SpecRun.
FailedIterationKeepsLooping ==
    /\ [][/\ (task_pc = "sweep" /\ task_pc' # "sweep") => task_pc' \in {"sleep", "caught"}
          /\ (task_pc = "sweep" /\ task_pc' = "caught") => running' = running
          /\ (task_pc = "caught" /\ task_pc' # "caught")
                => task_pc' = "sleep" /\ running' = running
          /\ (task_pc = "sleep" /\ task_pc' # "sleep")
                => task_pc' = (IF running THEN "sweep" ELSE "done")
          /\ (task_pc' = "done" /\ task_pc # "done") => task_pc = "sleep" /\ ~running
         ]_vars
    /\ (task_pc = "caught") ~> (task_pc = "sleep")
    /\ (task_pc = "caught" /\ running) ~> (task_pc = "sweep" \/ ~running)

\* C33 witness: an exception was caught in an iteration whose commit raised
\* after the transport had been called, while the task is running.
CaughtAfterTransportCalls ==
    /\ task_pc = "caught"
    /\ running
    /\ Len(sms_log) > Len(notifications)

\* C34: reorder_entries given each waiting entry exactly once.  Whatever the
\* positions were before (shared, with gaps, not starting at 1), the call
\* succeeds, the entry listed at place k stands at position k, the waiting
\* entries hold pairwise distinct positions that are exactly 1..N, the same
\* entries are waiting, and the entries that are not waiting are as they
\* were.  Holds under SpecWaitlist.
CompleteReorderNumbersFromOne ==
    \A entry_ids \in OrderingsOf(WaitingIds(entries)) :
        LET r == reorder_entries(entries, entry_ids)
            W == WaitingIds(entries)
        IN  /\ r.err = "ok"
            /\ Len(r.entries) = Len(entries)
            /\ WaitingIds(r.entries) = W
            /\ \A k \in 1..Len(entry_ids) : r.entries[entry_ids[k]].position = k
            /\ \A i, j \in W : i # j => r.entries[i].position # r.entries[j].position
            /\ {r.entries[i].position : i \in W} = 1..Cardinality(W)
            /\ \A i, j \in W :
                   (r.entries[i].position < r.entries[j].position)
                       <=> (\E k, l \in 1..Len(entry_ids) :
                                k < l /\ entry_ids[k] = i /\ entry_ids[l] = j)
            /\ \A i \in (1..Len(entries)) \ W : r.entries[i] = entries[i]

\* C34 witness: two waiting entries that share a position, neither at 1.
WaitingEntriesShareAPosition ==
    \E i, j \in WaitingIds(entries) :
        /\ i # j
        /\ entries[i].position = entries[j].position
        /\ entries[i].position > 1

\* C35 as stated: two overlapping add_guest requests give their two new
\* waiting entries different positions.  Refuted under SpecAdds.
OverlappingAddsGetDifferentPositions ==
    \A p, q \in Requests :
        (/\ p # q
         /\ adding[p].entry_id # NoRow
         /\ adding[q].entry_id # NoRow
         /\ entries[adding[p].entry_id].status = "waiting"
         /\ entries[adding[q].entry_id].status = "waiting")
            => entries[adding[p].entry_id].position # entries[adding[q].entry_id].position

\* C36 as stated: when the sweep calls the transport for an entry, the
\* entry is waiting, also when a status update for the entry came in
\* between the scan and the call of send_reminder.  Refuted under SpecStale.
SweepRemindsOnlyWaitingParties ==
    [][(attempts["sweep"].pc = "send" /\ attempts'["sweep"].pc = "final")
          => entries[attempts["sweep"].entry_id].status = "waiting"]_vars

\* C37 as stated: the estimate a guest is shown through the token of a
\* waiting entry is the estimate calculate_eta gives the staff for that
\* entry.  Refuted under SpecToken.
GuestEtaEqualsStaffEta ==
    \A token \in GuestTokens :
        LET c == get_guest_context(entries, guests, token, now)
        IN  (c.status_code = 200 /\ c.body.status = "waiting")
                => c.body.eta_minutes
                       = calculate_eta(entries, c.body.entry_id,
                                       DEFAULT_AVG_TURN_TIME_MINUTES).minutes

\* C38: every tokenized guest operation is granted only to the current,
\* unexpired token of an entry.  For every token: the context answers 200
\* exactly when some entry holds the token and now is before its expiry, 404
\* when no entry holds it and 410 when it has expired; menu and interests
\* answer 200 under the same condition and 404 otherwise; star, pre-order
\* and remove pre-order answer 404 "Invalid or expired link" and leave every
\* interest row as it was unless that condition holds, and a granted write
\* only touches rows of the entry that holds the token.  A step that changes
\* an interest row is made with a token that was current and unexpired.
\* Holds under SpecGuest.
GuestOperationsNeedCurrentToken ==
    /\ [](\A token \in GuestTokens :
            LET holders == {i \in 1..Len(entries) : entries[i].guest_token = token}
                granted == \E i \in holders : /\ entries[i].token_expires_at # NoTime
                                              /\ now < entries[i].token_expires_at
                c == get_guest_context(entries, guests, token, now)
                menu == get_guest_menu(entries, interests, token, now)
                shown == get_guest_interests(entries, interests, token, now)
            IN  /\ Cardinality(holders) <= 1
                /\ c.status_code = (IF granted THEN 200 ELSE IF holders = {} THEN 404 ELSE 410)
                /\ granted => c.body.entry_id \in holders
                /\ menu.status_code = (IF granted THEN 200 ELSE 404)
                /\ shown.status_code = (IF granted THEN 200 ELSE 404)
                /\ granted => menu.entry_id \in holders /\ shown.entry_id \in holders
                /\ menu.interests = interests /\ shown.interests = interests
                /\ \A menu_item_id \in MenuItemIds, starred \in BOOLEAN,
                      quantity \in Quantities :
                      LET s == star_item(entries, interests, token, menu_item_id, starred,
                                         now)
                          p == add_preorder(entries, interests, token, menu_item_id,
                                            quantity, now)
                          d == remove_preorder(entries, interests, token, menu_item_id, now)
                          own(r) ==
                              /\ Len(r.interests) >= Len(interests)
                              /\ \A k \in 1..Len(interests) :
                                    r.interests[k] # interests[k]
                                        => interests[k].waitlist_entry_id \in holders
                              /\ \A k \in (Len(interests) + 1)..Len(r.interests) :
                                    r.interests[k].waitlist_entry_id \in holders
                      IN  IF granted
                          THEN /\ s.entry_id \in holders /\ own(s)
                               /\ p.entry_id \in holders /\ own(p)
                               /\ d.entry_id \in holders /\ own(d)
                               /\ s.detail # "Invalid or expired link"
                               /\ p.detail # "Invalid or expired link"
                               /\ d.detail # "Invalid or expired link"
                          ELSE /\ s = GuestResponse(404, "Invalid or expired link", NoRow,
                                                    interests)
                               /\ p = GuestResponse(404, "Invalid or expired link", NoRow,
                                                    interests)
                               /\ d = GuestResponse(404, "Invalid or expired link", NoRow,
                                                    interests))
    /\ [][interests' # interests =>
             \E i \in 1..Len(entries) :
                 /\ entries[i].guest_token # NoToken
                 /\ now < entries[i].token_expires_at
                 /\ \A k \in 1..Len(interests) :
                       interests'[k] # interests[k] => interests[k].waitlist_entry_id = i
                 /\ \A k \in (Len(interests) + 1)..Len(interests') :
                       interests'[k].waitlist_entry_id = i
         ]_vars

\* C38 witness: an entry whose link has expired and that has a pre-order
\* made while the link was good.
ExpiredLinkWithPreorder ==
    \E i \in 1..Len(entries), k \in 1..Len(interests) :
        /\ entries[i].guest_token # NoToken
        /\ now >= entries[i].token_expires_at
        /\ interests[k].waitlist_entry_id = i
        /\ interests[k].is_preorder

\* C39: add_guest with the phone of an existing guest.  Whatever name is
\* given, the guests come back as they were, every earlier entry comes back
\* as it was, and exactly one entry is added: waiting, of that guest, with
\* the party size and source given, at the tail position.  Holds under
\* SpecNoReorder.
AddForKnownPhoneOnlyAddsEntry ==
    \A name \in Names, phone \in Phones, source \in Sources :
        LET known == {g \in 1..Len(guests) : guests[g].phone_number = phone}
            r == add_guest(guests, entries, name, 1, phone, source, now)
        IN  known # {} =>
                /\ r.err = "ok"
                /\ r.guests = guests
                /\ \A g \in known : r.guests[g].name = guests[g].name
                /\ Len(r.entries) = Len(entries) + 1
                /\ \A i \in 1..Len(entries) : r.entries[i] = entries[i]
                /\ r.entry_id = Len(entries) + 1
                /\ r.entries[r.entry_id].guest_id \in known
                /\ r.entries[r.entry_id]
                       = [guest_id |-> r.entries[r.entry_id].guest_id, party_size |-> 1,
                          status |-> "waiting",
                          position |-> r.entries[r.entry_id].position,
                          vip_flag |-> FALSE, source |-> source, created_at |-> now,
                          version |-> 1, guest_token |-> NoToken,
                          token_expires_at |-> NoTime]
                /\ \A i \in WaitingIds(entries) :
                       r.entries[r.entry_id].position > entries[i].position

\* C39 witness: a guest named Bob who was seated as a VIP and waits again
\* under the same phone: the requests drawn for that phone carry the name
\* Ann as well.
ReturningVipGuestWaitsAgain ==
    \E i, j \in 1..Len(entries) :
        /\ i < j
        /\ entries[i].guest_id = entries[j].guest_id
        /\ entries[i].status = "seated"
        /\ entries[i].vip_flag
        /\ entries[j].status = "waiting"
        /\ guests[entries[i].guest_id].name = "Bob"
        /\ guests[entries[i].guest_id].phone_number = "555"

====
